---- MODULE Spec2Model ----
(***************************************************************************)
(* The batch run of the publisher (run_batch) over a tree of publish items *)
(* and tasks: the validate, publish and finalize passes, the publish hook  *)
(* (validate / publish / undo / finalize of hooks/publish.py), the file    *)
(* utilities of hooks/path_info.py it calls, and the task generator of     *)
(* hooks/task_generator.py.                                                *)
(*                                                                         *)
(* The disk is a set of paths, the tracking service a set of records.      *)
(* Failures of the collaborators (a copy, a symlink, a registration, a     *)
(* deletion that does not go through) are inputs of the actions.           *)
(***************************************************************************)
EXTENDS Integers, Sequences, FiniteSets, TLC

\* ---- bounds of the model
MaxItems == 3
MaxTasks == 3
MaxFileTasks == 2
MaxFrames == 2

Items == 1..MaxItems
Frames == 1..MaxFrames

VARIABLES
    publish_tree,        \* the items, their parents and flags, and the tasks attached
    settings,            \* validate_on_publish and the item / task filters of the run
    task_generator,      \* the tasks the generator of the run yields, in order
    properties,          \* item.properties of every item
    disk,                \* the paths that exist on disk
    shotgun,             \* the records of the tracking service that are not deleted
    pc,                  \* where run_batch is
    cursor,              \* position of the current pass in the generated task sequence
    retval,              \* what run_batch returned
    failed_to_validate,  \* the list returned by the validate pass
    log                  \* history of the calls made (validate, publish, undo, finalize)

vars == <<publish_tree, settings, task_generator, properties, disk, shotgun, pc, cursor, retval,
          failed_to_validate, log>>

\* ------------------------------------------------------------------------
\* Paths. A path is a file of an area (the work area, the publish area of a
\* template, the symlink area of a template) that belongs to an item; its
\* file name either has no frame token ("file"), a frame number ("frame") or
\* a frame spec such as %04d ("spec").

NoPath == [area |-> "none", item |-> 0, tmpl |-> 0, kind |-> "file", frame |-> 0]

WorkPath(i, kind, f) == [area |-> "work", item |-> i, tmpl |-> 0, kind |-> kind, frame |-> f]

PathOf(area, i, k, kind, f) == [area |-> area, item |-> i, tmpl |-> k, kind |-> kind, frame |-> f]

RECURSIVE SortedSeq(_)
SortedSeq(S) ==
    IF S = {} THEN <<>>
    ELSE LET m == CHOOSE x \in S : \A y \in S : x <= y
         IN  <<m>> \o SortedSeq(S \ {m})

Range(s) == {s[n] : n \in 1..Len(s)}

\* BasicPathInfo.get_frame_number: the frame token of a file name, none (0)
\* when the name has no frame number.
get_frame_number(path) == IF path.kind = "frame" THEN path.frame ELSE 0

\* BasicPathInfo.get_path_for_frame: the frame spec of the path replaced by
\* the frame number; none when the path holds no frame spec.
get_path_for_frame(path, frame_num) ==
    IF path.kind = "spec"
    THEN [path EXCEPT !.kind = "frame", !.frame = frame_num]
    ELSE NoPath

\* BasicPathInfo.get_frame_sequence_path: a path that holds a frame spec is
\* returned as it is, a path with a frame number has it replaced by the frame
\* spec, any other path gives none.
get_frame_sequence_path(path) ==
    IF path.kind = "spec" THEN path
    ELSE IF path.kind = "frame" THEN [path EXCEPT !.kind = "spec", !.frame = 0]
    ELSE NoPath

\* glob.iglob of a wildcard path (a path whose frame token is "*", written as
\* frame 0): the files on disk whose name differs from it in the frame only.
Glob(d, pattern) ==
    {p \in d : p.kind = "frame" /\ [p EXCEPT !.frame = 0] = pattern}

\* BasicPathInfo.get_sequence_path_files: the files on disk of a sequence
\* path, sorted.
get_sequence_path_files(d, seq_path) == Glob(d, get_path_for_frame(seq_path, 0))

\* BasicPathInfo.get_publish_name: the file name with its version and frame
\* tokens removed.
get_publish_name(path) == <<path.area, path.item, path.tmpl>>

RECURSIVE SortedByFrame(_)
SortedByFrame(S) ==
    IF S = {} THEN <<>>
    ELSE LET m == CHOOSE x \in S : \A y \in S : x.frame <= y.frame
         IN  <<m>> \o SortedByFrame(S \ {m})

\* The loop of copy_files: src_files[n..] are copied to dest_path one by one;
\* copies counts the copies attempted so far and the fail_at-th attempt raises
\* (0: none does). The result is the disk, the files processed and whether the
\* loop raised.
RECURSIVE CopyLoop(_, _, _, _, _, _, _)
CopyLoop(d, src_files, n, dest_path, is_sequence, copies, fail_at) ==
    IF n > Len(src_files)
    THEN [disk |-> d, processed_files |-> <<>>, raised |-> FALSE]
    ELSE LET src_file  == src_files[n]
             dest_file == IF is_sequence
                          THEN get_path_for_frame(dest_path, get_frame_number(src_file))
                          ELSE dest_path
         IN  IF src_file = dest_file
             THEN CopyLoop(d, src_files, n + 1, dest_path, is_sequence, copies, fail_at)
             ELSE IF dest_file = NoPath \/ copies + 1 = fail_at
             THEN [disk |-> d, processed_files |-> <<>>, raised |-> TRUE]
             ELSE LET rest == CopyLoop(d \cup {dest_file}, src_files, n + 1, dest_path,
                                       is_sequence, copies + 1, fail_at)
                  IN  [rest EXCEPT !.processed_files = <<dest_file>> \o @]

\* BasicPathInfo.copy_files.
copy_files(d, src_files, dest_path, is_sequence, fail_at) ==
    CopyLoop(d, src_files, 1, dest_path, is_sequence, 0, fail_at)

\* BasicPathInfo.symlink_files: the same loop, with links for copies.
symlink_files(d, src_files, dest_path, is_sequence, fail_at) ==
    CopyLoop(d, src_files, 1, dest_path, is_sequence, 0, fail_at)

\* BasicPathInfo.delete_files: every path is deleted with safe_delete_file,
\* which swallows its own errors: when the deletion does not go through
\* (fails) the files stay and nothing is raised.
util_delete_files(d, paths_to_delete, fails) ==
    IF fails THEN d ELSE d \ paths_to_delete

\* ------------------------------------------------------------------------
\* The publish tree and the task generator.

Star == <<"*">>

ItemName(i) == <<"item", i>>

\* A task is named after its plugin; the plugin configured in position k
\* publishes through template k (0: no publish_path_template, in place).
TaskName(task) == <<"publish", task.tmpl>>

fnmatch(name, pattern) == pattern = Star \/ pattern = name

\* The non-root items of the tree in the order the tree iterates them:
\* pre-order, the children of an item in the order they were created.
RECURSIVE PreOrder(_, _)
PreOrder(parent, stack) ==
    IF stack = <<>> THEN <<>>
    ELSE LET i == Head(stack)
             children == SortedSeq({c \in DOMAIN parent : parent[c] = i})
         IN  <<i>> \o PreOrder(parent, children \o Tail(stack))

TreeItems(tree) == Tail(PreOrder(tree.parent, <<0>>))

\* item.tasks: the tasks attached to the item, in the order they were attached.
ItemTasks(tree, i) == SortedSeq({t \in 1..Len(tree.tasks) : tree.tasks[t].item = i})

Matched(name, filters) == \E n \in 1..Len(filters) : fnmatch(name, filters[n])

\* The inner loop without its test of task.active.
YieldTasksActiveOrNot(tree, i, task_filters) ==
    LET Yielded(t) == Matched(TaskName(tree.tasks[t]), task_filters)
    IN  SelectSeq(ItemTasks(tree, i), Yielded)

\* The inner loop of TaskGenerator.execute: the tasks of one item it yields.
YieldTasks(tree, i, task_filters) ==
    LET Yielded(t) == /\ Matched(TaskName(tree.tasks[t]), task_filters)
                      /\ tree.tasks[t].active
    IN  SelectSeq(ItemTasks(tree, i), Yielded)

\* The outer loop leaving at the first item it skips (break for continue).
RECURSIVE YieldItemsUntilSkipped(_, _, _, _)
YieldItemsUntilSkipped(tree, items, item_filters, task_filters) ==
    IF items = <<>> THEN <<>>
    ELSE LET item == Head(items)
             rest == YieldItemsUntilSkipped(tree, Tail(items), item_filters, task_filters)
         IN  IF ~Matched(ItemName(item), item_filters) THEN <<>>
             ELSE IF ~tree.active[item] THEN <<>>
             ELSE IF ItemTasks(tree, item) = <<>> THEN <<>>
             ELSE YieldTasks(tree, item, task_filters) \o rest

\* The outer loop without its test of item.active.
RECURSIVE YieldItemsActiveOrNot(_, _, _, _)
YieldItemsActiveOrNot(tree, items, item_filters, task_filters) ==
    IF items = <<>> THEN <<>>
    ELSE LET item == Head(items)
             rest == YieldItemsActiveOrNot(tree, Tail(items), item_filters, task_filters)
         IN  IF ~Matched(ItemName(item), item_filters) THEN rest
             ELSE IF ItemTasks(tree, item) = <<>> THEN rest
             ELSE YieldTasks(tree, item, task_filters) \o rest

\* The outer loop yielding the tasks of an item after those of the items that
\* follow it.
RECURSIVE YieldItemsTasksLast(_, _, _, _)
YieldItemsTasksLast(tree, items, item_filters, task_filters) ==
    IF items = <<>> THEN <<>>
    ELSE LET item == Head(items)
             rest == YieldItemsTasksLast(tree, Tail(items), item_filters, task_filters)
         IN  IF ~Matched(ItemName(item), item_filters) THEN rest
             ELSE IF ~tree.active[item] THEN rest
             ELSE IF ItemTasks(tree, item) = <<>> THEN rest
             ELSE rest \o YieldTasks(tree, item, task_filters)

\* The outer loop of TaskGenerator.execute over the items of the tree.
RECURSIVE YieldItems(_, _, _, _)
YieldItems(tree, items, item_filters, task_filters) ==
    IF items = <<>> THEN <<>>
    ELSE LET item == Head(items)
             rest == YieldItems(tree, Tail(items), item_filters, task_filters)
         IN  IF ~Matched(ItemName(item), item_filters) THEN rest
             ELSE IF ~tree.active[item] THEN rest
             ELSE IF ItemTasks(tree, item) = <<>> THEN rest
             ELSE YieldTasks(tree, item, task_filters) \o rest

\* TaskGenerator.execute: the sequence of tasks the generator yields.
execute(tree, item_filters, task_filters) ==
    LET itf == IF item_filters = <<>> THEN <<Star>> ELSE item_filters
        tf  == IF task_filters = <<>> THEN <<Star>> ELSE task_filters
    IN  YieldItems(tree, TreeItems(tree), itf, tf)

\* ------------------------------------------------------------------------
\* The publish hook (hooks/publish.py). item.properties is one bag per item,
\* shared by the tasks of the item.

\* item.context: the items of a run share one context.
Context(i) == "shot"

\* _get_publish_path: the path given by the publish_path_template of the
\* task (its sequence key kept for a sequence, dropped otherwise), and the
\* source path (publish in place) when no template is set.
_get_publish_path(task, props) ==
    IF task.tmpl # 0
    THEN PathOf("publish", task.item, task.tmpl,
                IF props.is_sequence THEN "spec" ELSE "file", 0)
    ELSE props.path

\* _get_publish_symlink_path: none without a publish_symlink_template.
_get_publish_symlink_path(task, props) ==
    IF task.symlink
    THEN PathOf("link", task.item, task.tmpl,
                IF props.is_sequence THEN "spec" ELSE "file", 0)
    ELSE NoPath

\* _get_publish_name without a publish_name_template: from the source path.
_get_publish_name(task, props) == get_publish_name(props.path)

\* The attributes validate stores on the item (the loop over attr_list).
ResolveAttributes(task, props) ==
    LET named == [props EXCEPT !.publish_name = _get_publish_name(task, props)]
        pathed == [named EXCEPT !.publish_path = _get_publish_path(task, named)]
    IN  [pathed EXCEPT !.publish_symlink_path = _get_publish_symlink_path(task, pathed)]

\* util.get_conflicting_publishes with the filter sg_status_list is_not None:
\* the records of the same context and name whose status is set.
get_conflicting_publishes(sg, context, path, name) ==
    {r \in sg : r.context = context /\ r.name = name /\ r.status}

\* The check with the comparison of the two paths turned around: the files
\* at the publish path are looked for when the publish is in place only.
ExistingFilesInPlaceOnly(resolved, d, out) ==
    LET path         == IF resolved.is_sequence
                        THEN get_path_for_frame(resolved.path, 0)
                        ELSE resolved.path
        publish_path == IF resolved.is_sequence
                        THEN get_path_for_frame(resolved.publish_path, 0)
                        ELSE resolved.publish_path
        files        == IF resolved.is_sequence THEN Glob(d, publish_path)
                        ELSE {resolved.publish_path} \cap d
    IN  IF path = publish_path /\ files # {}
        THEN [out EXCEPT !.result = "False", !.files = files]
        ELSE out

\* The last check of validate: unless the publish is in place (for a
\* sequence the two paths are compared with the frame spec as a wildcard), a
\* file that exists at the publish path, or any file of the sequence, fails
\* the validation.
ExistingFiles(resolved, d, out) ==
    LET path         == IF resolved.is_sequence
                        THEN get_path_for_frame(resolved.path, 0)
                        ELSE resolved.path
        publish_path == IF resolved.is_sequence
                        THEN get_path_for_frame(resolved.publish_path, 0)
                        ELSE resolved.publish_path
        seq_files    == Glob(d, publish_path)
    IN  IF path # publish_path
        THEN IF resolved.is_sequence
             THEN IF publish_path = NoPath THEN [out EXCEPT !.result = "raise"]
                  ELSE IF seq_files # {}
                  THEN [out EXCEPT !.result = "False", !.files = seq_files]
                  ELSE out
             ELSE IF resolved.publish_path \in d
                  THEN [out EXCEPT !.result = "False", !.files = {resolved.publish_path}]
                  ELSE out
        ELSE out

\* validate without the test of the conflicting records.
validate_without_conflicts(task, props, d, sg, fault) ==
    LET none == [result |-> "True", properties |-> props, publishes |-> {}, files |-> {}]
    IN
    IF fault = "publish_path"
    THEN [none EXCEPT !.result = "False",
                      !.properties = [props EXCEPT !.publish_name =
                                                       _get_publish_name(task, props)]]
    ELSE
    LET resolved  == ResolveAttributes(task, props)
        out       == [none EXCEPT !.properties = resolved]
    IN  IF fault = "conflict_query" THEN [out EXCEPT !.result = "raise"]
        ELSE ExistingFiles(resolved, d, out)

\* PublishPlugin.validate. fault is what goes wrong while it runs: nothing,
\* one of the _get_<attr> methods raising, or the conflict query raising.
\* The result is "True", "False" or "raise", with the properties it leaves
\* and the conflicts it logged.
validate(task, props, d, sg, fault) ==
    LET none == [result |-> "True", properties |-> props, publishes |-> {}, files |-> {}]
    IN
    IF fault = "publish_path"
    THEN [none EXCEPT !.result = "False",
                      !.properties = [props EXCEPT !.publish_name =
                                                       _get_publish_name(task, props)]]
    ELSE
    LET resolved  == ResolveAttributes(task, props)
        out       == [none EXCEPT !.properties = resolved]
        publishes == get_conflicting_publishes(sg, Context(task.item),
                                               resolved.publish_path, resolved.publish_name)
    IN  IF fault = "conflict_query" THEN [out EXCEPT !.result = "raise"]
        ELSE IF publishes # {}
        THEN [out EXCEPT !.result = "False", !.publishes = publishes]
        ELSE ExistingFiles(resolved, d, out)

\* PublishPlugin.delete_files: the files on disk of the sequence the path
\* belongs to when it holds a frame number or a frame spec, the path alone
\* otherwise, handed to the delete_files of the path utilities.
FilesToDelete(d, deletion_path) ==
    LET seq_path == get_frame_sequence_path(deletion_path)
    IN  IF seq_path # NoPath THEN get_sequence_path_files(d, seq_path)
        ELSE {deletion_path}

delete_files(d, deletion_path, fails) ==
    util_delete_files(d, FilesToDelete(d, deletion_path), fails)

\* The cleanup steps of an undo that fail: the deletion of files that are
\* there when deletions do not go through, the deletion of the records of the
\* item when it raises.
FailedSteps(props, d, del_fails, rec_fails) ==
    (IF del_fails /\ (FilesToDelete(d, props.publish_path) \cap d # {}
                      \/ (props.publish_symlink_path # NoPath
                          /\ FilesToDelete(d, props.publish_symlink_path) \cap d # {}))
     THEN {"files"} ELSE {})
    \cup (IF rec_fails /\ props.has_sg_list /\ props.sg_publish_data_list # <<>>
          THEN {"record"} ELSE {})

\* An undo that removes the symlinks and the records and leaves the files at
\* the publish path.
undo_keeps_publish_path(props, d, sg, del_fails, rec_fails) ==
    LET sg_publish_data_list == IF props.has_sg_list THEN props.sg_publish_data_list ELSE <<>>
        unlinked == IF props.publish_symlink_path # NoPath
                    THEN delete_files(d, props.publish_symlink_path, del_fails)
                    ELSE d
        ids      == {sg_publish_data_list[n].id : n \in 1..Len(sg_publish_data_list)}
    IN  [disk       |-> unlinked,
         shotgun    |-> IF rec_fails THEN sg ELSE {r \in sg : r.id \notin ids},
         properties |-> IF sg_publish_data_list # <<>>
                        THEN [props EXCEPT !.has_sg_list = FALSE,
                                           !.sg_publish_data_list = <<>>]
                        ELSE props,
         deleted    |-> d \ unlinked,
         failed     |-> FailedSteps(props, d, del_fails, rec_fails),
         logged     |-> FailedSteps(props, d, del_fails, rec_fails),
         raised     |-> FALSE]

\* An undo whose deletions are not guarded: a deletion that fails raises out
\* of it, before the list of records is popped.
undo_unguarded(props, d, sg, del_fails, rec_fails) ==
    LET sg_publish_data_list == IF props.has_sg_list THEN props.sg_publish_data_list ELSE <<>>
        unlinked == IF props.publish_symlink_path # NoPath
                    THEN delete_files(d, props.publish_symlink_path, del_fails)
                    ELSE d
        cleaned  == delete_files(unlinked, props.publish_path, del_fails)
        ids      == {sg_publish_data_list[n].id : n \in 1..Len(sg_publish_data_list)}
        failed   == FailedSteps(props, d, del_fails, rec_fails) # {}
    IN  [disk       |-> cleaned,
         shotgun    |-> IF rec_fails THEN sg ELSE {r \in sg : r.id \notin ids},
         properties |-> IF sg_publish_data_list # <<>> /\ ~failed
                        THEN [props EXCEPT !.has_sg_list = FALSE,
                                           !.sg_publish_data_list = <<>>]
                        ELSE props,
         deleted    |-> d \ cleaned,
         failed     |-> FailedSteps(props, d, del_fails, rec_fails),
         logged     |-> {},
         raised     |-> failed]

\* PublishPlugin.undo. del_fails: the file deletions do not go through
\* (safe_delete_file logs it and goes on); rec_fails: the deletion of a record
\* raises (caught and logged here).
undo(props, d, sg, del_fails, rec_fails) ==
    LET sg_publish_data_list == IF props.has_sg_list THEN props.sg_publish_data_list ELSE <<>>
        unlinked == IF props.publish_symlink_path # NoPath
                    THEN delete_files(d, props.publish_symlink_path, del_fails)
                    ELSE d
        cleaned  == delete_files(unlinked, props.publish_path, del_fails)
        ids      == {sg_publish_data_list[n].id : n \in 1..Len(sg_publish_data_list)}
    IN  [disk       |-> cleaned,
         shotgun    |-> IF rec_fails THEN sg ELSE {r \in sg : r.id \notin ids},
         properties |-> IF sg_publish_data_list # <<>>
                        THEN [props EXCEPT !.has_sg_list = FALSE,
                                           !.sg_publish_data_list = <<>>]
                        ELSE props,
         deleted    |-> d \ cleaned,
         failed     |-> FailedSteps(props, d, del_fails, rec_fails),
         logged     |-> FailedSteps(props, d, del_fails, rec_fails),
         raised     |-> FALSE]

\* PublishPlugin.symlink_publishes.
symlink_publishes(d, publish_path, symlink_path, fail_at) ==
    LET seq_path == get_frame_sequence_path(publish_path)
    IN  IF seq_path # NoPath
        THEN symlink_files(d, SortedByFrame(get_sequence_path_files(d, publish_path)),
                           symlink_path, TRUE, fail_at)
        ELSE symlink_files(d, <<publish_path>>, symlink_path, FALSE, fail_at)

\* PublishPlugin.publish_files.
publish_files(d, props, publish_path, fail_at) ==
    LET work_files == IF props.is_sequence THEN props.sequence_paths ELSE <<props.path>>
    IN  copy_files(d, work_files, publish_path, props.is_sequence, fail_at)

\* What a publish call can be made to fail at: nothing, the n-th copy, the
\* n-th symlink, the registration; and whether the deletions of an undo that
\* follows go through.
Faults ==
    [kind : {"none"}, at : {0}, del_fails : {FALSE}, rec_fails : {FALSE}]
    \cup [kind : {"register"}, at : {0}, del_fails : BOOLEAN, rec_fails : BOOLEAN]
    \cup [kind : {"copy", "symlink"}, at : Frames, del_fails : BOOLEAN, rec_fails : BOOLEAN]

\* PublishPlugin.publish of task t. parent_list is the sg_publish_data_list of
\* the parent item (empty when it has none), next_id the id the tracking
\* service gives the next record. The dependency ids are the list stored on
\* the item as publish_dependency_ids, when there is one, extended in place
\* with the ids of the parent's records. The result holds the state it leaves,
\* whether it raised and with which error, the files it copied and linked,
\* the record it registered and the undo it ran itself.
publish(t, task, props, parent_list, d, sg, next_id, fault) ==
    LET copied == publish_files(d, props, props.publish_path,
                                IF fault.kind = "copy" THEN fault.at ELSE 0)
        with_files == [props EXCEPT !.publish_files =
                          {e \in @ : e.name # TaskName(task)}
                          \cup {[name |-> TaskName(task), files |-> copied.processed_files]}]
        linked == IF props.publish_symlink_path # NoPath
                  THEN symlink_publishes(copied.disk, props.publish_path,
                                         props.publish_symlink_path,
                                         IF fault.kind = "symlink" THEN fault.at ELSE 0)
                  ELSE [disk |-> copied.disk, processed_files |-> <<>>, raised |-> FALSE]
        dependency_ids == (IF props.has_dependency_ids THEN props.publish_dependency_ids
                           ELSE <<>>)
                          \o [n \in 1..Len(parent_list) |-> parent_list[n].id]
        with_ids == IF props.has_dependency_ids
                    THEN [with_files EXCEPT !.publish_dependency_ids = dependency_ids]
                    ELSE with_files
        sg_publish_data == [id |-> next_id, context |-> Context(task.item),
                            name |-> props.publish_name, path |-> props.publish_path,
                            status |-> TRUE, task |-> t,
                            dependency_ids |-> dependency_ids]
        undone == undo(with_ids, linked.disk, sg, fault.del_fails, fault.rec_fails)
        out == [properties |-> props, disk |-> d, shotgun |-> sg, raised |-> FALSE,
                error |-> "none", copied |-> Range(copied.processed_files),
                linked |-> {}, registered |-> <<>>, undo |-> <<>>]
    IN  IF copied.raised
        THEN [out EXCEPT !.disk = copied.disk, !.raised = TRUE, !.error = "copy"]
        ELSE IF linked.raised
        THEN [out EXCEPT !.properties = with_files, !.disk = linked.disk,
                         !.raised = TRUE, !.error = "symlink",
                         !.linked = Range(linked.processed_files)]
        ELSE IF fault.kind = "register"
        THEN [out EXCEPT !.properties = undone.properties, !.disk = undone.disk,
                         !.shotgun = undone.shotgun,
                         !.raised = TRUE,
                         !.error = IF undone.raised THEN "undo" ELSE "register",
                         !.linked = Range(linked.processed_files),
                         !.undo = <<undone>>]
        ELSE [out EXCEPT !.properties =
                             [with_ids EXCEPT !.has_sg_list = TRUE,
                                                !.sg_publish_data_list =
                                                    Append(@, sg_publish_data)],
                         !.disk = linked.disk,
                         !.shotgun = sg \cup {sg_publish_data},
                         !.linked = Range(linked.processed_files),
                         !.registered = <<sg_publish_data>>]

\* util.clear_status_for_conflicting_publishes: the status of the other
\* records of the same context and name is cleared.
clear_status_for_conflicting_publishes(sg, context, publish_data) ==
    {IF r \in get_conflicting_publishes(sg, context, publish_data.path, publish_data.name)
        /\ r.id # publish_data.id
     THEN [r EXCEPT !.status = FALSE] ELSE r : r \in sg}

RECURSIVE ClearAll(_, _, _, _)
ClearAll(sg, context, list, n) ==
    IF n > Len(list) THEN sg
    ELSE ClearAll(clear_status_for_conflicting_publishes(sg, context, list[n]),
                  context, list, n + 1)

\* PublishPlugin.finalize. fails: a call it makes raises.
finalize(task, props, sg, fails) ==
    IF props.has_sg_list
    THEN IF fails THEN [shotgun |-> sg, raised |-> TRUE]
         ELSE [shotgun |-> ClearAll(sg, Context(task.item), props.sg_publish_data_list, 1),
               raised |-> FALSE]
    ELSE [shotgun |-> sg, raised |-> FALSE]

\* ------------------------------------------------------------------------
\* The runs explored. Two families of trees: trees of every shape with plain
\* files copied to a clean publish area, where one item or task may be
\* inactive or filtered out; and small trees where the tasks publish in place
\* or through a template, a sequence or a file, with or without symlinks, onto
\* a disk and a tracking service that may hold an earlier publish.

Trees == {p \in [Items -> 0..MaxItems] : \A i \in Items : p[i] < i}

Owners(n) == {o \in [1..n -> Items] : \A a, b \in 1..n : a < b => o[a] <= o[b]}

\* The position of task t among the tasks of its item.
Position(o, t) == Cardinality({u \in 1..t : o[u] = o[t]})

NoSkip == [item_off |-> 0, task_off |-> 0, item_filter |-> <<>>, task_filter |-> <<>>]

Skips ==
    {NoSkip}
    \cup {[NoSkip EXCEPT !.item_off = i] : i \in Items}
    \cup {[NoSkip EXCEPT !.task_off = t] : t \in 1..MaxTasks}
    \cup {[NoSkip EXCEPT !.item_filter = <<ItemName(i)>>] : i \in Items}
    \cup {[NoSkip EXCEPT !.task_filter = <<<<"publish", 1>>>>]}

\* with_ids: the collector gave every item an (empty) publish_dependency_ids.
TreeRun(p, o, skip, vop, with_ids) ==
    [tree |-> [parent |-> p,
               active |-> [i \in Items |-> i # skip.item_off],
               is_sequence |-> [i \in Items |-> FALSE],
               has_dependency_ids |-> with_ids,
               tasks |-> [t \in 1..MaxTasks |->
                             [item |-> o[t], tmpl |-> Position(o, t),
                              active |-> t # skip.task_off, symlink |-> FALSE]]],
     settings |-> [validate_on_publish |-> vop,
                   item_filter |-> skip.item_filter,
                   task_filter |-> skip.task_filter],
     disk |-> {}, shotgun |-> {}]

TreeRuns ==
    {TreeRun(p, o, skip, vop, FALSE)
     : p \in Trees, o \in Owners(MaxTasks), skip \in Skips, vop \in BOOLEAN}
    \cup {TreeRun(p, o, NoSkip, vop, TRUE)
          : p \in Trees, o \in Owners(MaxTasks), vop \in BOOLEAN}

FileTemplates(t) == {0, 1, t}

\* An earlier publish of item 1: a file in the publish area of template 1, a
\* record of its name.
EarlierFile(seq) == PathOf("publish", 1, 1, IF seq THEN "frame" ELSE "file",
                           IF seq THEN 1 ELSE 0)

EarlierRecord(seq) ==
    [id |-> 0, context |-> Context(1),
     name |-> get_publish_name(WorkPath(1, "file", 0)),
     path |-> EarlierFile(seq), status |-> TRUE, task |-> 0, dependency_ids |-> <<>>]

FileRuns ==
    {[tree |-> [parent |-> [i \in Items |-> IF i = 2 THEN p2 ELSE 0],
                active |-> [i \in Items |-> TRUE],
                is_sequence |-> [i \in Items |-> i = 1 /\ seq],
                has_dependency_ids |-> FALSE,
                tasks |-> [t \in 1..MaxFileTasks |->
                              [item |-> o[t], tmpl |-> k[t],
                               active |-> TRUE, symlink |-> sym]]],
      settings |-> [validate_on_publish |-> vop, item_filter |-> <<>>,
                    task_filter |-> <<>>],
      disk |-> IF file THEN {EarlierFile(seq)} ELSE {},
      shotgun |-> IF rec THEN {EarlierRecord(seq)} ELSE {}]
     : p2 \in {0, 1},
       o \in {o \in Owners(MaxFileTasks) : o[1] = 1 /\ \A t \in 1..MaxFileTasks : o[t] <= 2},
       k \in {k \in [1..MaxFileTasks -> 0..MaxFileTasks] :
                 \A t \in 1..MaxFileTasks : k[t] \in FileTemplates(t)},
       seq \in BOOLEAN, sym \in BOOLEAN, file \in BOOLEAN, rec \in BOOLEAN,
       vop \in BOOLEAN}

\* The files of the work area the collector found for the items.
SourceFiles(tree, i) ==
    IF tree.is_sequence[i] THEN {WorkPath(i, "frame", f) : f \in Frames}
    ELSE {WorkPath(i, "file", 0)}

\* The properties the collector gives an item.
Collected(tree, i) ==
    [path |-> IF tree.is_sequence[i] THEN WorkPath(i, "spec", 0) ELSE WorkPath(i, "file", 0),
     is_sequence |-> tree.is_sequence[i],
     sequence_paths |-> IF tree.is_sequence[i] THEN SortedByFrame(SourceFiles(tree, i))
                        ELSE <<>>,
     publish_name |-> <<>>, publish_path |-> NoPath, publish_symlink_path |-> NoPath,
     publish_files |-> {}, has_sg_list |-> FALSE, sg_publish_data_list |-> <<>>,
     has_dependency_ids |-> tree.has_dependency_ids, publish_dependency_ids |-> <<>>]

\* The properties of a tree that was validated before it was saved: every
\* item holds the attributes the validate of its tasks stored, in the order
\* of the tasks.
RECURSIVE Validated(_, _, _, _)
Validated(tree, props, tasks, n) ==
    IF n > Len(tasks) THEN props
    ELSE LET task == tree.tasks[tasks[n]]
         IN  Validated(tree,
                       [props EXCEPT ![task.item] = ResolveAttributes(task, @)],
                       tasks, n + 1)

Init ==
    \E run \in TreeRuns \cup FileRuns :
        /\ publish_tree = run.tree
        /\ settings = run.settings
        /\ task_generator = execute(run.tree, run.settings.item_filter,
                                    run.settings.task_filter)
        /\ properties =
              LET collected == [i \in Items |-> Collected(run.tree, i)]
              IN  IF run.settings.validate_on_publish THEN collected
                  ELSE Validated(run.tree, collected,
                                 execute(run.tree, run.settings.item_filter,
                                         run.settings.task_filter), 1)
        /\ disk = run.disk \cup UNION {SourceFiles(run.tree, i) : i \in Items}
        /\ shotgun = run.shotgun
        /\ pc = "start"
        /\ cursor = 1
        /\ retval = "none"
        /\ failed_to_validate = <<>>
        /\ log = [validated |-> <<>>, published |-> <<>>, undone |-> <<>>,
                  finalized |-> <<>>]

\* ------------------------------------------------------------------------
\* run_batch and the passes of the publish manager.

CurrentTask == task_generator[cursor]

ValidateFaults == {"none", "publish_path", "conflict_query"}

\* The sg_publish_data_list of the parent of an item, empty when the parent
\* is the root or has none.
ParentList(i) ==
    LET parent == publish_tree.parent[i]
    IN  IF parent # 0 /\ properties[parent].has_sg_list
        THEN properties[parent].sg_publish_data_list
        ELSE <<>>

\* The id the tracking service gives the next record.
NextId == Len(log.published) + 1

\* run_batch up to the first pass: the validate pass runs when
\* validate_on_publish is set, else the publish pass is next.
Start ==
    /\ pc = "start"
    /\ pc' = IF settings.validate_on_publish THEN "validate" ELSE "publish"
    /\ UNCHANGED <<publish_tree, settings, task_generator, properties, disk, shotgun, cursor, retval,
                   failed_to_validate, log>>

\* The files on disk at a publish path: the files of the sequence when the
\* path holds a frame spec, the file itself otherwise.
FilesAt(d, path) ==
    IF path.kind = "spec" THEN Glob(d, get_path_for_frame(path, 0)) ELSE {path} \cap d

\* PublishManager.validate, one task: validate is called on the next task of
\* the generator; False or an exception puts the task on the list of failures
\* and the pass goes on. The log keeps what the call was given: the records
\* the tracking service reported to it and the files that were on disk at the
\* publish path it resolved.
ValidateTask(fault) ==
    /\ pc = "validate"
    /\ cursor <= Len(task_generator)
    /\ LET t    == CurrentTask
           task == publish_tree.tasks[t]
           res  == validate(task, properties[task.item], disk, shotgun, fault)
           reported == IF fault = "none"
                       THEN get_conflicting_publishes(shotgun, Context(task.item),
                                                      res.properties.publish_path,
                                                      res.properties.publish_name)
                       ELSE {}
       IN  /\ properties' = [properties EXCEPT ![task.item] = res.properties]
           /\ failed_to_validate' = IF res.result = "True" THEN failed_to_validate
                                    ELSE Append(failed_to_validate, t)
           /\ log' = [log EXCEPT !.validated =
                         Append(@, [task |-> t, fault |-> fault, result |-> res.result,
                                    publishes |-> res.publishes, files |-> res.files,
                                    reported |-> reported,
                                    path |-> res.properties.path,
                                    publish_path |-> res.properties.publish_path,
                                    existing |-> FilesAt(disk, res.properties.publish_path)])]
    /\ cursor' = cursor + 1
    /\ UNCHANGED <<publish_tree, settings, task_generator, disk, shotgun, pc, retval>>

\* run_batch going on to the publish pass whatever the validate pass found.
ValidateDoneWhateverFound ==
    /\ pc = "validate"
    /\ cursor > Len(task_generator)
    /\ pc' = "publish"
    /\ cursor' = 1
    /\ UNCHANGED <<publish_tree, settings, task_generator, properties, disk, shotgun, retval,
                   failed_to_validate, log>>

\* run_batch after the validate pass: any issue ends the run with False.
ValidateDone ==
    /\ pc = "validate"
    /\ cursor > Len(task_generator)
    /\ LET num_issues == Len(failed_to_validate)
       IN  IF num_issues > 0
           THEN pc' = "done" /\ retval' = "False"
           ELSE pc' = "publish" /\ retval' = retval
    /\ cursor' = 1
    /\ UNCHANGED <<publish_tree, settings, task_generator, properties, disk, shotgun,
                   failed_to_validate, log>>

\* The undo the manager runs on the task whose publish raised.
manager_undo(props, d, sg, fault) == undo(props, d, sg, fault.del_fails, fault.rec_fails)

\* PublishManager.publish, one task: publish is called on the next task of the
\* generator; when it raises, the task is undone and the exception stops the
\* pass.
PublishTask(fault) ==
    /\ pc = "publish"
    /\ cursor <= Len(task_generator)
    /\ LET t    == CurrentTask
           task == publish_tree.tasks[t]
           res  == publish(t, task, properties[task.item], ParentList(task.item),
                           disk, shotgun, NextId, fault)
           undone == manager_undo(res.properties, res.disk, res.shotgun, fault)
           entry == [task |-> t, raised |-> res.raised, error |-> res.error,
                     copied |-> res.copied, linked |-> res.linked,
                     registered |-> res.registered, before |-> disk,
                     publish_path |-> properties[task.item].publish_path,
                     parent_list |-> ParentList(task.item)]
           undos == [n \in 1..Len(res.undo) |->
                        [task |-> t, by |-> "publish", deleted |-> res.undo[n].deleted,
                         failed |-> res.undo[n].failed,
                         logged |-> res.undo[n].logged, raised |-> res.undo[n].raised]]
       IN  IF res.raised
           THEN /\ properties' = [properties EXCEPT ![task.item] = undone.properties]
                /\ disk' = undone.disk
                /\ shotgun' = undone.shotgun
                /\ log' = [log EXCEPT
                              !.published = Append(@, entry),
                              !.undone = @ \o undos \o
                                  <<[task |-> t, by |-> "manager",
                                     deleted |-> undone.deleted,
                                     failed |-> undone.failed,
                                     logged |-> undone.logged,
                                     raised |-> undone.raised]>>]
                /\ pc' = "publish_raised"
                /\ cursor' = cursor
           ELSE /\ properties' = [properties EXCEPT ![task.item] = res.properties]
                /\ disk' = res.disk
                /\ shotgun' = res.shotgun
                /\ log' = [log EXCEPT !.published = Append(@, entry)]
                /\ pc' = pc
                /\ cursor' = cursor + 1
    /\ UNCHANGED <<publish_tree, settings, task_generator, retval, failed_to_validate>>

\* run_batch swallowing the exception of a publish: the pass goes on with the
\* next task.
PublishFailedGoesOn ==
    /\ pc = "publish_raised"
    /\ pc' = "publish"
    /\ cursor' = cursor + 1
    /\ UNCHANGED <<publish_tree, settings, task_generator, properties, disk, shotgun, retval,
                   failed_to_validate, log>>

\* run_batch falling through to the finalize pass after the publish pass
\* raised.
PublishFailedFinalizes ==
    /\ pc = "publish_raised"
    /\ pc' = "finalize"
    /\ cursor' = 1
    /\ UNCHANGED <<publish_tree, settings, task_generator, properties, disk, shotgun, retval,
                   failed_to_validate, log>>

\* run_batch when the publish pass raised: the error is logged, the run ends
\* with False.
PublishFailed ==
    /\ pc = "publish_raised"
    /\ pc' = "done"
    /\ retval' = "False"
    /\ UNCHANGED <<publish_tree, settings, task_generator, properties, disk, shotgun, cursor,
                   failed_to_validate, log>>

\* run_batch starting the finalize pass while the publish pass has tasks left.
PublishDoneAtAnyTime ==
    /\ pc = "publish"
    /\ pc' = "finalize"
    /\ cursor' = 1
    /\ UNCHANGED <<publish_tree, settings, task_generator, properties, disk, shotgun, retval,
                   failed_to_validate, log>>

\* run_batch when the publish pass completed: the finalize pass is next.
PublishDone ==
    /\ pc = "publish"
    /\ cursor > Len(task_generator)
    /\ pc' = "finalize"
    /\ cursor' = 1
    /\ UNCHANGED <<publish_tree, settings, task_generator, properties, disk, shotgun, retval,
                   failed_to_validate, log>>

\* PublishManager.finalize, one task: finalize is called on the next task of
\* the generator; an exception stops the pass.
FinalizeTask(fails) ==
    /\ pc = "finalize"
    /\ cursor <= Len(task_generator)
    /\ LET t    == CurrentTask
           task == publish_tree.tasks[t]
           res  == finalize(task, properties[task.item], shotgun, fails)
       IN  /\ shotgun' = res.shotgun
           /\ log' = [log EXCEPT !.finalized = Append(@, [task |-> t, raised |-> res.raised])]
           /\ pc' = IF res.raised THEN "finalize_raised" ELSE pc
           /\ cursor' = IF res.raised THEN cursor ELSE cursor + 1
    /\ UNCHANGED <<publish_tree, settings, task_generator, properties, disk, retval, failed_to_validate>>

\* run_batch swallowing the exception of a finalize: the pass goes on with
\* the next task.
FinalizeFailedGoesOn ==
    /\ pc = "finalize_raised"
    /\ pc' = "finalize"
    /\ cursor' = cursor + 1
    /\ UNCHANGED <<publish_tree, settings, task_generator, properties, disk, shotgun, retval,
                   failed_to_validate, log>>

\* run_batch when the finalize pass raised: the error is logged, the run ends
\* with False.
FinalizeFailed ==
    /\ pc = "finalize_raised"
    /\ pc' = "done"
    /\ retval' = "False"
    /\ UNCHANGED <<publish_tree, settings, task_generator, properties, disk, shotgun, cursor,
                   failed_to_validate, log>>

\* run_batch when the finalize pass completed: the run ends with True.
FinalizeDone ==
    /\ pc = "finalize"
    /\ cursor > Len(task_generator)
    /\ pc' = "done"
    /\ retval' = "True"
    /\ UNCHANGED <<publish_tree, settings, task_generator, properties, disk, shotgun, cursor,
                   failed_to_validate, log>>

Next ==
    \/ Start
    \/ \E fault \in ValidateFaults : ValidateTask(fault)
    \/ ValidateDone
    \/ \E fault \in Faults : PublishTask(fault)
    \/ PublishFailed
    \/ PublishDone
    \/ \E fails \in BOOLEAN : FinalizeTask(fails)
    \/ FinalizeFailed
    \/ FinalizeDone

Spec == Init /\ [][Next]_vars

\* ------------------------------------------------------------------------
\* The properties of the run.

ItemOf(t) == publish_tree.tasks[t].item

\* Item i lies below item x in the tree.
RECURSIVE IsDescendant(_, _, _)
IsDescendant(parent, i, x) ==
    IF i = 0 THEN FALSE
    ELSE parent[i] = x \/ IsDescendant(parent, parent[i], x)

PublishPassOver == pc \in {"publish_raised", "finalize", "finalize_raised", "done"}

\* An undo of task t logged that a cleanup step of the kind failed.
UndoLogged(t, step) ==
    \E n \in 1..Len(log.undone) : log.undone[n].task = t /\ step \in log.undone[n].logged

\* Nothing a failed publish of entry e copied is left, nor a record of its task.
NothingLeft(e) ==
    /\ e.copied \cap disk = {}
    /\ \A r \in shotgun : r.task # e.task

CreatedBy(t) ==
    UNION {(log.published[n].copied \cup log.published[n].linked) \ log.published[n].before
           : n \in {m \in 1..Len(log.published) : log.published[m].task = t}}

\* C2: every undo deletes only files the publish of its task created; a file
\* that was there before the publish began, or that the task did not create,
\* is not deleted.
C2_UndoDeletesOnlyCreated ==
    \A n \in 1..Len(log.undone) :
        log.undone[n].deleted \subseteq CreatedBy(log.undone[n].task)

\* The active tasks of active items that match the filters of the run.
ExpectedTasks ==
    {t \in 1..Len(publish_tree.tasks) :
        LET task == publish_tree.tasks[t]
        IN  /\ task.active
            /\ publish_tree.active[task.item]
            /\ \/ settings.item_filter = <<>>
               \/ ItemName(task.item) \in Range(settings.item_filter)
            /\ \/ settings.task_filter = <<>>
               \/ TaskName(task) \in Range(settings.task_filter)}

\* The tasks whose validate did not return True, in the order of the calls.
FailedValidations ==
    LET Failed(v) == v.result # "True"
        failures  == SelectSeq(log.validated, Failed)
    IN  [n \in 1..Len(failures) |-> failures[n].task]

ValidatePassOver == settings.validate_on_publish /\ pc \notin {"start", "validate"}

\* C3: the validate pass calls validate once on every active task that matches
\* the filters, whatever the earlier calls returned or raised, and the list it
\* returns holds exactly the tasks whose validate returned False or raised.
C3_ValidatePass ==
    /\ failed_to_validate = FailedValidations
    /\ ValidatePassOver =>
          /\ {log.validated[n].task : n \in 1..Len(log.validated)} = ExpectedTasks
          /\ Len(log.validated) = Cardinality(ExpectedTasks)

\* A validate pass is over where a task was left out, a validate failed and a
\* later one returned True.
C3_Witness ==
    /\ ValidatePassOver
    /\ Cardinality(ExpectedTasks) < Len(publish_tree.tasks)
    /\ \E m, n \in 1..Len(log.validated) :
          /\ m < n
          /\ log.validated[m].result # "True"
          /\ log.validated[n].result = "True"
    /\ Len(failed_to_validate) > 0

\* Every task publish was called on had validate called on it earlier in the
\* run, with True returned, and the publish calls are in the order of the
\* validate calls.
PublishedWereValidated ==
    /\ \A n \in 1..Len(log.published) :
          \E m \in 1..Len(log.validated) :
              /\ log.validated[m].task = log.published[n].task
              /\ log.validated[m].result = "True"
    /\ \A a, b \in 1..Len(log.published) :
          a < b => \E m, n \in 1..Len(log.validated) :
                      /\ m < n
                      /\ log.validated[m].task = log.published[a].task
                      /\ log.validated[n].task = log.published[b].task

\* C4 as the spec states it: in every run, whatever the configuration, publish
\* is called only on tasks validate returned True for earlier in the run, in
\* the order they were validated.
C4_Original == PublishedWereValidated

\* C4, amended: in a run with validate_on_publish set, publish is called only
\* on tasks validate returned True for earlier in the run, in the order they
\* were validated; in a run without it validate is called on no task.
C4_Amended ==
    /\ settings.validate_on_publish => PublishedWereValidated
    /\ ~settings.validate_on_publish => log.validated = <<>>

\* A run with validate_on_publish set has published two tasks.
C4_Witness ==
    /\ settings.validate_on_publish
    /\ pc = "done"
    /\ Len(log.published) >= 2
    /\ ~log.published[2].raised

\* Task u has a publish call in the log after position n.
PublishedAfter(u, n) ==
    \E m \in 1..Len(log.published) : m > n /\ log.published[m].task = u

Published(u) == PublishedAfter(u, 0)

\* C5 as the spec states it: after the publish of a task on item X failed, the
\* tasks of the descendants of X are skipped and the tasks of the items
\* outside the subtree of X are published all the same.
C5_Original ==
    pc = "done" =>
        \A n \in 1..Len(log.published) :
            log.published[n].raised =>
                \A k \in 1..Len(task_generator) :
                    LET u == task_generator[k]
                        x == ItemOf(log.published[n].task)
                    IN  IF IsDescendant(publish_tree.parent, ItemOf(u), x)
                        THEN ~PublishedAfter(u, n)
                        ELSE ItemOf(u) # x => Published(u)

\* C5, amended: the publish of a task that fails is the last publish call of
\* the run: no task the generator yields after it is published, below its
\* item or elsewhere, nothing is finalized and the run returns False.
C5_Amended ==
    \A n \in 1..Len(log.published) :
        log.published[n].raised =>
            /\ n = Len(log.published)
            /\ pc \in {"publish_raised", "done"}
            /\ task_generator[cursor] = log.published[n].task
            /\ \A k \in 1..Len(task_generator) :
                  k > cursor => ~Published(task_generator[k])
            /\ log.finalized = <<>>
            /\ pc = "done" => retval = "False"

\* A run has ended after a publish failed on an item, with a task below that
\* item and a task outside its subtree both left unpublished.
C5_Witness ==
    /\ pc = "done"
    /\ \E n \in 1..Len(log.published) :
          /\ log.published[n].raised
          /\ \E j, k \in 1..Len(task_generator) :
                LET x == ItemOf(log.published[n].task)
                IN  /\ IsDescendant(publish_tree.parent, ItemOf(task_generator[j]), x)
                    /\ ~IsDescendant(publish_tree.parent, ItemOf(task_generator[k]), x)
                    /\ ItemOf(task_generator[k]) # x
                    /\ ~Published(task_generator[j])
                    /\ ~Published(task_generator[k])

\* C6: when the tracking service reports records in conflict to the validate
\* of a task, validate returns False, the records it logs are the ones
\* reported, and publish is never called on the task.
C6_ConflictFailsValidation ==
    \A m \in 1..Len(log.validated) :
        LET v == log.validated[m]
        IN  v.reported # {} =>
                /\ v.result = "False"
                /\ v.publishes = v.reported
                /\ ~Published(v.task)

\* A run has ended after the service reported a conflict to a validate.
C6_Witness ==
    /\ pc = "done"
    /\ \E m \in 1..Len(log.validated) :
          /\ log.validated[m].reported # {}
          /\ log.validated[m].result = "False"
    /\ log.published = <<>>

\* C7: a validate whose publish path differs from the source path fails when
\* a file is on disk at the publish path (for a sequence: any file of the
\* sequence), naming the files found; a validate whose publish path is the
\* source path does not fail for the files on disk there.
C7_ExistingFileFailsValidation ==
    \A m \in 1..Len(log.validated) :
        LET v == log.validated[m]
        IN  /\ v.publish_path # NoPath /\ v.publish_path # v.path /\ v.existing # {}
               => /\ v.result # "True"
                  /\ v.fault = "none" /\ v.reported = {}
                     => v.result = "False" /\ v.files = v.existing
            /\ v.publish_path = v.path /\ v.fault = "none" /\ v.reported = {}
               => v.result = "True" /\ v.existing # {}

\* In one run a validate failed for a file at its publish path and the
\* validate of a publish in place returned True.
C7_Witness ==
    \E m, n \in 1..Len(log.validated) :
        /\ log.validated[m].publish_path # log.validated[m].path
        /\ log.validated[m].existing # {}
        /\ log.validated[m].files = log.validated[m].existing
        /\ log.validated[m].result = "False"
        /\ log.validated[n].publish_path = log.validated[n].path
        /\ log.validated[n].result = "True"

\* C8: finalize is called only on tasks whose publish was called and did not
\* raise.
C8_FinalizeOnlyPublished ==
    \A n \in 1..Len(log.finalized) :
        \E m \in 1..Len(log.published) :
            /\ log.published[m].task = log.finalized[n].task
            /\ ~log.published[m].raised

\* A run has ended with tasks finalized and a task of the tree that was not.
C8_Witness ==
    /\ pc = "done"
    /\ Len(log.finalized) >= 1
    /\ Len(log.finalized) < Len(publish_tree.tasks)

\* The files and the records of every publish that did not raise are there.
PublishedRemain ==
    \A m \in 1..Len(log.published) :
        LET e == log.published[m]
        IN  ~e.raised =>
                /\ e.copied \cup e.linked \subseteq disk
                /\ \A k \in 1..Len(e.registered) :
                      \E r \in shotgun : r.id = e.registered[k].id

FinalizeRaised == \E n \in 1..Len(log.finalized) : log.finalized[n].raised

\* C9 as the spec states it: after a finalize raised no undo is run, what was
\* published remains, and finalize is still called on the other published
\* tasks.
C9_Original ==
    pc = "done" /\ FinalizeRaised =>
        /\ log.undone = <<>>
        /\ PublishedRemain
        /\ \A m \in 1..Len(log.published) :
              \E n \in 1..Len(log.finalized) :
                  log.finalized[n].task = log.published[m].task

\* C9, amended: after a finalize raised no undo is run and what was published
\* remains, but the finalize that raised is the last one of the run: the
\* tasks after it are not finalized and the run returns False.
C9_Amended ==
    \A n \in 1..Len(log.finalized) :
        log.finalized[n].raised =>
            /\ n = Len(log.finalized)
            /\ pc \in {"finalize_raised", "done"}
            /\ log.undone = <<>>
            /\ PublishedRemain
            /\ pc = "done" => retval = "False"

\* A run has ended after the first finalize raised with another published
\* task left to finalize.
C9_Witness ==
    /\ pc = "done"
    /\ Len(log.finalized) = 1
    /\ log.finalized[1].raised
    /\ Len(log.published) >= 2
    /\ PublishedRemain

TasksOf(pass) == {pass[n].task : n \in 1..Len(pass)}

\* C11: the passes are ordered over the whole tree: no publish is called
\* before validate was called on every task of the validate pass, and no
\* finalize is called before publish was called, and returned, for every task.
C11_PassesOrdered ==
    /\ settings.validate_on_publish /\ log.published # <<>>
       => /\ TasksOf(log.validated) = ExpectedTasks
          /\ Len(log.validated) = Cardinality(ExpectedTasks)
    /\ log.finalized # <<>>
       => /\ TasksOf(log.published) = ExpectedTasks
          /\ Len(log.published) = Cardinality(ExpectedTasks)
          /\ \A n \in 1..Len(log.published) : ~log.published[n].raised

\* A run with the three passes has ended, each pass with two tasks or more.
C11_Witness ==
    /\ pc = "done"
    /\ settings.validate_on_publish
    /\ Len(log.validated) >= 2
    /\ Len(log.published) >= 2
    /\ Len(log.finalized) >= 2

\* C12: the publish of a task uses the publish path its own validate
\* resolved, also when another task of the item resolved a different one.
C12_PublishUsesOwnValue ==
    \A n \in 1..Len(log.published) :
        \A m \in 1..Len(log.validated) :
            log.validated[m].task = log.published[n].task
            => log.published[n].publish_path = log.validated[m].publish_path

\* C14: the generator yields, once each, exactly the active tasks of the
\* active items that match the filters, whatever was skipped above them.
C14_GeneratorYields ==
    /\ Range(task_generator) = ExpectedTasks
    /\ Len(task_generator) = Cardinality(ExpectedTasks)

\* Item i has an ancestor that the generator skips (inactive or filtered out).
HasSkippedAncestor(i) ==
    \E x \in Items :
        /\ IsDescendant(publish_tree.parent, i, x)
        /\ \/ ~publish_tree.active[x]
           \/ /\ settings.item_filter # <<>>
              /\ ItemName(x) \notin Range(settings.item_filter)

\* The generator yields a task of an item below an item that has tasks and is
\* skipped.
C14_Witness ==
    \E k \in 1..Len(task_generator) :
        \E x \in Items :
            /\ IsDescendant(publish_tree.parent, ItemOf(task_generator[k]), x)
            /\ ~publish_tree.active[x]
            /\ ItemTasks(publish_tree, x) # <<>>

\* The calls of the three passes.
Calls == TasksOf(log.validated) \cup TasksOf(log.published) \cup TasksOf(log.finalized)

InTreeOrder(tasks) ==
    \A j, k \in 1..Len(tasks) :
        /\ IsDescendant(publish_tree.parent, ItemOf(tasks[k]), ItemOf(tasks[j])) => j < k
        /\ ItemOf(tasks[j]) = ItemOf(tasks[k]) /\ tasks[j] < tasks[k] => j < k

PassTasks(pass) == [n \in 1..Len(pass) |-> pass[n].task]

Listed(id, ids) == Cardinality({n \in 1..Len(ids) : ids[n] = id})

\* C18: a record registered for an item lists as dependency ids, once each,
\* the ids of the records the parent of the item held when it was registered.
C18_ParentIdsListedOnce ==
    \A n \in 1..Len(log.published) :
        LET e == log.published[n]
        IN  \A k \in 1..Len(e.registered) :
                \A j \in 1..Len(e.parent_list) :
                    Listed(e.parent_list[j].id, e.registered[k].dependency_ids) = 1

\* ------------------------------------------------------------------------
\* The publish version of the items of a tree (_get_publish_version), resolved
\* item by item as their validate runs.

MaxVersion == 2

\* A value that may be None.
None == [some |-> FALSE, value |-> 0]

Some(v) == [some |-> TRUE, value |-> v]

\* The truth value Python gives a version: None and 0 are false.
Truthy(x) == x.some /\ x.value # 0

\* item.properties.fields of an item: with or without a "version".
VersionFields ==
    {[has_version |-> FALSE, version |-> 0]}
    \cup [has_version : {TRUE}, version : 0..MaxVersion]

\* fields.get("version", 1).
FieldsVersion(fields) == IF fields.has_version THEN Some(fields.version) ELSE Some(1)

\* PublishPlugin._get_publish_version: None for the root, the version of the
\* parent when it is true, else the version of the item's own fields.
RECURSIVE _get_publish_version(_, _)
_get_publish_version(tree, item) ==
    IF item = 0 THEN None
    ELSE LET parent_version == _get_publish_version(tree, tree.parent[item])
         IN  IF Truthy(parent_version) THEN parent_version
             ELSE FieldsVersion(tree.fields[item])

VersionTrees == {[parent |-> p, fields |-> f] : p \in Trees, f \in [Items -> VersionFields]}

InitVersion ==
    /\ publish_tree \in VersionTrees
    /\ properties = [i \in Items |-> [resolved |-> FALSE, publish_version |-> None]]
    /\ pc = "version"
    /\ settings = <<>>
    /\ task_generator = <<>>
    /\ disk = {}
    /\ shotgun = {}
    /\ cursor = 0
    /\ retval = "none"
    /\ failed_to_validate = <<>>
    /\ log = <<>>

\* The validate of a task of item i stores the publish version of the item.
ResolveVersion(i) ==
    /\ pc = "version"
    /\ ~properties[i].resolved
    /\ properties' = [properties EXCEPT
                         ![i] = [resolved |-> TRUE,
                                 publish_version |-> _get_publish_version(publish_tree, i)]]
    /\ UNCHANGED <<publish_tree, settings, task_generator, disk, shotgun, pc, cursor, retval,
                   failed_to_validate, log>>

NextVersion == \E i \in Items : ResolveVersion(i)

SpecVersion == InitVersion /\ [][NextVersion]_vars

\* C13: an item whose version is resolved, below a non-root item whose version
\* is resolved, has the version of that item, the nearest one above it; an item
\* right below the root has the version of its own fields, 1 when they hold
\* none.
C13_VersionOfNearestAncestor ==
    \A i \in Items :
        properties[i].resolved =>
            LET parent == publish_tree.parent[i]
            IN  IF parent # 0
                THEN properties[parent].resolved
                     => properties[i].publish_version = properties[parent].publish_version
                ELSE properties[i].publish_version
                     = (IF publish_tree.fields[i].has_version
                        THEN Some(publish_tree.fields[i].version) ELSE Some(1))

\* ------------------------------------------------------------------------
\* Invocations of the task generator, pulled from one task at a time. An
\* invocation keeps where its two loops are: item_pos in the items of the
\* tree, task_pos in the tasks of that item (0 before the first task).

Invocations == {1, 2}

NewInvocation == [item_pos |-> 1, task_pos |-> 0, exhausted |-> FALSE, yielded |-> <<>>]

\* The loops of TaskGenerator.execute run on from (item_pos, task_pos) up to
\* the next yield, or to the end of the tree.
RECURSIVE RunToYield(_, _, _, _, _)
RunToYield(tree, item_filters, task_filters, item_pos, task_pos) ==
    LET items == TreeItems(tree)
    IN  IF item_pos > Len(items)
        THEN [item_pos |-> item_pos, task_pos |-> 0, exhausted |-> TRUE, task |-> 0]
        ELSE LET item  == items[item_pos]
                 tasks == ItemTasks(tree, item)
             IN  IF \/ ~Matched(ItemName(item), item_filters)
                    \/ ~tree.active[item]
                    \/ tasks = <<>>
                    \/ task_pos > Len(tasks)
                 THEN RunToYield(tree, item_filters, task_filters, item_pos + 1, 1)
                 ELSE IF \/ ~Matched(TaskName(tree.tasks[tasks[task_pos]]), task_filters)
                         \/ ~tree.tasks[tasks[task_pos]].active
                 THEN RunToYield(tree, item_filters, task_filters, item_pos, task_pos + 1)
                 ELSE [item_pos |-> item_pos, task_pos |-> task_pos, exhausted |-> FALSE,
                       task |-> tasks[task_pos]]

\* An invocation resumed where it stopped.
Resumed(run, invocation) ==
    LET itf == IF run.item_filter = <<>> THEN <<Star>> ELSE run.item_filter
        tf  == IF run.task_filter = <<>> THEN <<Star>> ELSE run.task_filter
        at  == RunToYield(run.tree, itf, tf, invocation.item_pos, invocation.task_pos + 1)
    IN  [item_pos |-> at.item_pos, task_pos |-> at.task_pos, exhausted |-> at.exhausted,
         yielded |-> IF at.exhausted THEN invocation.yielded
                     ELSE Append(invocation.yielded, at.task)]

\* A pull where the position of the loops is kept in one place for all the
\* invocations (on the hook instance, say) instead of in each of them.
next_task_shared_position(run, invocations, g) ==
    LET resumed == Resumed(run, invocations[g])
    IN  [h \in DOMAIN invocations |->
            IF h = g THEN resumed
            ELSE [invocations[h] EXCEPT !.item_pos = resumed.item_pos,
                                        !.task_pos = resumed.task_pos]]

\* next() on invocation g: it runs to its next yield; the others are untouched.
next_task(run, invocations, g) ==
    [invocations EXCEPT ![g] = Resumed(run, invocations[g])]

InitGenerators ==
    \E run \in {r \in TreeRuns : r.settings.validate_on_publish
                                  /\ ~r.tree.has_dependency_ids} :
        /\ publish_tree = run.tree
        /\ settings = run.settings
        /\ task_generator = [g \in Invocations |-> NewInvocation]
        /\ properties = <<>>
        /\ disk = {}
        /\ shotgun = {}
        /\ pc = "generators"
        /\ cursor = 0
        /\ retval = "none"
        /\ failed_to_validate = <<>>
        /\ log = <<>>

\* The caller pulls the next task from invocation g.
Pull(g) ==
    /\ pc = "generators"
    /\ ~task_generator[g].exhausted
    /\ task_generator' = next_task([tree |-> publish_tree,
                                    item_filter |-> settings.item_filter,
                                    task_filter |-> settings.task_filter],
                                   task_generator, g)
    /\ UNCHANGED <<publish_tree, settings, properties, disk, shotgun, pc, cursor, retval,
                   failed_to_validate, log>>

NextGenerators == \E g \in Invocations : Pull(g)

SpecGenerators == InitGenerators /\ [][NextGenerators]_vars

IsPrefix(a, b) == Len(a) <= Len(b) /\ \A n \in 1..Len(a) : a[n] = b[n]

MaxScalar == 2

Keys == {"k", "m"}

SubKeys == {"a", "b"}

Leaves == {[kind |-> "absent", v |-> 0]} \cup {[kind |-> "scalar", v |-> n] : n \in 1..MaxScalar}

EmptyDict == [s \in SubKeys |-> [kind |-> "absent", v |-> 0]]

Absent == [kind |-> "absent", v |-> 0, d |-> EmptyDict]

Scalar(n) == [kind |-> "scalar", v |-> n, d |-> EmptyDict]

Dict(d) == [kind |-> "dict", v |-> 0, d |-> d]

Values == {Absent} \cup {Scalar(n) : n \in 1..MaxScalar} \cup {Dict(d) : d \in [SubKeys -> Leaves]}

\* Nested under "k" only, to keep the number of dictionaries small.
Dicts == {dct \in [Keys -> Values] : dct["m"].kind # "dict"}

\* dict.update(): every key of the other dictionary replaces the value held.
update(dct, other) ==
    [k \in DOMAIN dct |-> IF other[k].kind = "absent" THEN dct[k] ELSE other[k]]

\* A merge whose else branch assigns only the keys the dictionary already has.
RECURSIVE dict_merge_existing_keys_only(_, _)
dict_merge_existing_keys_only(dct, merge_dct) ==
    [k \in DOMAIN dct |->
        IF merge_dct[k].kind = "absent" THEN dct[k]
        ELSE IF dct[k].kind = "dict" /\ merge_dct[k].kind = "dict"
        THEN Dict(dict_merge_existing_keys_only(dct[k].d, merge_dct[k].d))
        ELSE IF dct[k].kind = "absent" THEN dct[k]
        ELSE merge_dct[k]]

\* dict_merge(dct, merge_dct): the value of dct afterwards.
RECURSIVE dict_merge(_, _)
dict_merge(dct, merge_dct) ==
    [k \in DOMAIN dct |->
        IF merge_dct[k].kind = "absent" THEN dct[k]
        ELSE IF dct[k].kind = "dict" /\ merge_dct[k].kind = "dict"
        THEN Dict(dict_merge(dct[k].d, merge_dct[k].d))
        ELSE merge_dct[k]]

\* settings: the plugin's settings (defaults), the settings of the item's
\* type when the plugin has some (item_type), overrides given at run time
\* (runtime). properties: the dictionaries being built.
InitMerge ==
    \E D \in Dicts, A \in Dicts, B \in Dicts, has \in BOOLEAN :
        /\ settings = [defaults |-> D, has_item_type |-> has, item_type |-> A, runtime |-> B]
        /\ properties = [sequential |-> D, patch |-> A, combined |-> D, task_settings |-> D]
        /\ pc = "merge"
        /\ publish_tree = <<>>
        /\ task_generator = <<>>
        /\ disk = {}
        /\ shotgun = {}
        /\ cursor = 0
        /\ retval = "none"
        /\ failed_to_validate = <<>>
        /\ log = <<>>

\* PublishPlugin.init_task_settings: the settings of the item's type are
\* flattened into a copy of the plugin's settings.
init_task_settings ==
    /\ pc = "merge"
    /\ properties' = [properties EXCEPT !.task_settings =
                         IF settings.has_item_type
                         THEN update(settings.defaults, settings.item_type)
                         ELSE settings.defaults]
    /\ pc' = "task_settings"
    /\ UNCHANGED <<publish_tree, settings, task_generator, disk, shotgun, cursor, retval,
                   failed_to_validate, log>>

\* The item-type layer merged into the defaults.
MergeItemType ==
    /\ pc = "merge"
    /\ properties' = [properties EXCEPT !.sequential =
                         dict_merge(properties.sequential, settings.item_type)]
    /\ pc' = "item_type_merged"
    /\ UNCHANGED <<publish_tree, settings, task_generator, disk, shotgun, cursor, retval,
                   failed_to_validate, log>>

\* Then the runtime layer merged into the result.
MergeRuntime ==
    /\ pc = "item_type_merged"
    /\ properties' = [properties EXCEPT !.sequential =
                         dict_merge(properties.sequential, settings.runtime)]
    /\ pc' = "sequential_merged"
    /\ UNCHANGED <<publish_tree, settings, task_generator, disk, shotgun, cursor, retval,
                   failed_to_validate, log>>

\* The two override layers merged into one patch.
MergePatch ==
    /\ pc = "sequential_merged"
    /\ properties' = [properties EXCEPT !.patch =
                         dict_merge(properties.patch, settings.runtime)]
    /\ pc' = "patch_merged"
    /\ UNCHANGED <<publish_tree, settings, task_generator, disk, shotgun, cursor, retval,
                   failed_to_validate, log>>

\* The patch merged into the defaults.
MergeCombined ==
    /\ pc = "patch_merged"
    /\ properties' = [properties EXCEPT !.combined =
                         dict_merge(properties.combined, properties.patch)]
    /\ pc' = "merged"
    /\ UNCHANGED <<publish_tree, settings, task_generator, disk, shotgun, cursor, retval,
                   failed_to_validate, log>>

NextMerge ==
    \/ init_task_settings
    \/ MergeItemType
    \/ MergeRuntime
    \/ MergePatch
    \/ MergeCombined

SpecMerge == InitMerge /\ [][NextMerge]_vars

\* What the claim asks of a narrower layer laid over a broader one: a key of
\* the narrower layer takes its value, a key of the broader layer alone keeps
\* its value, and where both hold a dictionary the same goes for its keys.
LaidOver(broad, narrow, result) ==
    \A k \in Keys :
        IF narrow[k].kind = "absent" THEN result[k] = broad[k]
        ELSE IF broad[k].kind = "dict" /\ narrow[k].kind = "dict"
        THEN /\ result[k].kind = "dict"
             /\ \A s \in SubKeys :
                   result[k].d[s] = IF narrow[k].d[s].kind = "absent"
                                    THEN broad[k].d[s] ELSE narrow[k].d[s]
        ELSE result[k] = narrow[k]

\* C19: the task settings made for an item whose type has its own settings
\* hold, at every depth, the item type's value for a key the item type
\* defines and the plugin's value for a key only the plugin defines; no
\* dictionary of the plugin is replaced wholesale.
C19_NarrowerOverBroader ==
    pc = "task_settings" /\ settings.has_item_type
    => LaidOver(settings.defaults, settings.item_type, properties.task_settings)

\* A key holds a dictionary in the defaults, a scalar in the item-type layer
\* and a dictionary in the runtime layer.
DictScalarDict(D, A, B) ==
    \E k \in Keys : D[k].kind = "dict" /\ A[k].kind = "scalar" /\ B[k].kind = "dict"

\* C20 as stated: merging the item-type layer and then the runtime layer
\* into the defaults gives what merging their combined patch gives, for all
\* dictionaries, mixed dictionary and scalar values included.
C20_Original ==
    pc = "merged" => properties.sequential = properties.combined

\* C20, amended: the two ways give the same dictionary provided no key holds
\* a dictionary in the defaults, a scalar in the item-type layer and a
\* dictionary in the runtime layer.
C20_Amended ==
    pc = "merged" /\ ~DictScalarDict(settings.defaults, settings.item_type, settings.runtime)
    => properties.sequential = properties.combined

\* Both merges are done on layers where a key holds a dictionary in one and
\* a scalar in another, every layer changes the result, and the two agree.
C20_Witness ==
    /\ pc = "merged"
    /\ ~DictScalarDict(settings.defaults, settings.item_type, settings.runtime)
    /\ settings.defaults["k"].kind = "scalar"
    /\ settings.item_type["k"].kind = "dict"
    /\ settings.item_type["k"].d # EmptyDict
    /\ settings.runtime["k"].kind = "dict"
    /\ settings.runtime["k"].d # settings.item_type["k"].d
    /\ settings.runtime["k"].d # EmptyDict
    /\ settings.runtime["m"].kind = "scalar"
    /\ properties.sequential = properties.combined
    /\ properties.sequential # settings.defaults
    /\ properties.sequential # settings.runtime

\* ------------------------------------------------------------------------
\* Template settings resolved to a path. A template has the keys
\* TemplateKeys; a field of the setting is a value with an is_missing flag;
\* a path made from a template is the token put in place of each key.

TemplateKeys == {"Step", "name", "version"}

NoneValue == "None"

MultiplesValue == "Multiples"

Placeholder == "{key}"

\* The fields gather_fields leaves: a value found in the context, the
\* multiple-values marker when the tasks disagree, None marked missing.
FieldStates ==
    {[value |-> v, is_missing |-> FALSE] : v \in {"v1", "v2", MultiplesValue}}
    \cup {[value |-> NoneValue, is_missing |-> TRUE]}

\* The value of the setting: no template, the multiple-values marker, the
\* name of a template of the configuration, a name the configuration lacks.
TemplateValues == {NoneValue, MultiplesValue, "known", "unknown"}

NoTokens == [k \in TemplateKeys |-> ""]

Outcome(kind, error, path) == [kind |-> kind, error |-> error, path |-> path]

\* Template.missing_keys(fields, True): the keys without a value.
missing_keys(fields) == {k \in DOMAIN fields : fields[k].value = NoneValue}

\* TemplateSettingWidget.resolve_template_value: what _resolved_value is
\* set to, or the exception raised.
resolve_template_value(value, fields) ==
    IF value = NoneValue THEN Outcome("message", "", NoTokens)
    ELSE IF value = MultiplesValue THEN Outcome("message", "", NoTokens)
    ELSE IF \E k \in DOMAIN fields : fields[k].is_missing
    THEN Outcome("message", "", NoTokens)
    ELSE IF value = "unknown" THEN Outcome("raised", "TankMissingTemplateError", NoTokens)
    ELSE Outcome("path", "",
                 [k \in DOMAIN fields |-> IF fields[k].value = MultiplesValue
                                          THEN Placeholder ELSE fields[k].value])

\* PublishPlugin._get_publish_path on the fields of one item: the path
\* applied from the template, the item's own path when no template is set,
\* or the exception raised.
resolve_publish_path(value, fields) ==
    IF value = NoneValue THEN Outcome("in_place", "", NoTokens)
    ELSE IF value = "unknown" THEN Outcome("raised", "TankError", NoTokens)
    ELSE IF missing_keys(fields) # {} THEN Outcome("raised", "TankError", NoTokens)
    ELSE Outcome("path", "", [k \in DOMAIN fields |-> fields[k].value])

InitTemplate ==
    \E value \in TemplateValues, fields \in [TemplateKeys -> FieldStates] :
        /\ settings = [value |-> value, fields |-> fields]
        /\ properties = [widget |-> Outcome("pending", "", NoTokens),
                         publish_path |-> Outcome("pending", "", NoTokens)]
        /\ pc = "template"
        /\ retval = "none"
        /\ publish_tree = <<>>
        /\ task_generator = <<>>
        /\ disk = {}
        /\ shotgun = {}
        /\ cursor = 0
        /\ failed_to_validate = <<>>
        /\ log = <<>>

\* The settings widget shows the resolved value of the setting.
ResolveTemplateValue ==
    /\ pc = "template"
    /\ properties.widget.kind = "pending"
    /\ properties' = [properties EXCEPT !.widget =
                         resolve_template_value(settings.value, settings.fields)]
    /\ UNCHANGED <<publish_tree, settings, task_generator, disk, shotgun, pc, cursor, retval,
                   failed_to_validate, log>>

\* validate resolves publish_path for one item (whose fields hold no
\* multiple-values marker); an exception makes it return False.
ValidatePublishPath ==
    /\ pc = "template"
    /\ properties.publish_path.kind = "pending"
    /\ settings.value # MultiplesValue
    /\ \A k \in TemplateKeys : settings.fields[k].value # MultiplesValue
    /\ LET outcome == resolve_publish_path(settings.value, settings.fields)
       IN  /\ properties' = [properties EXCEPT !.publish_path = outcome]
           /\ retval' = IF outcome.kind = "raised" THEN "False" ELSE "none"
    /\ UNCHANGED <<publish_tree, settings, task_generator, disk, shotgun, pc, cursor,
                   failed_to_validate, log>>

NextTemplate == ResolveTemplateValue \/ ValidatePublishPath

SpecTemplate == InitTemplate /\ [][NextTemplate]_vars

\* What the claim asks of one resolution of the setting.
ResolvedAsClaimed(outcome, missing_template) ==
    /\ outcome.kind = "path" => \A k \in TemplateKeys : outcome.path[k] # Placeholder
    /\ settings.value = "unknown"
       => outcome.kind = "raised" /\ outcome.error = "TankMissingTemplateError"
    /\ settings.value = "known" /\ missing_keys(settings.fields) # {}
       => outcome.kind = "raised" /\ outcome.error # missing_template.error

\* C21: resolving a template setting never gives a path with a placeholder
\* left in it; it raises a missing-template error when the template does not
\* exist and an error of another kind when a field is missing; and validate
\* returns False when the publish path cannot be resolved.
C21_TemplateResolution ==
    /\ properties.widget.kind # "pending"
       => ResolvedAsClaimed(properties.widget,
                            resolve_template_value("unknown", settings.fields))
    /\ properties.publish_path.kind # "pending"
       => /\ ResolvedAsClaimed(properties.publish_path,
                               resolve_publish_path("unknown", settings.fields))
          /\ properties.publish_path.kind = "raised" => retval = "False"

\* ------------------------------------------------------------------------
\* Version numbers in file names. A file name is a sequence of characters;
\* the folder of a path is left as it is by everything below.

MaxNameLen == 5

Chars == {"a", "_", "v", "V", "0", "9", "."}

DigitChars == <<"0", "1", "2", "3", "4", "5", "6", "7", "8", "9">>

IsDigit(c) == \E n \in 1..10 : DigitChars[n] = c

FileNames == UNION {[1..n -> Chars] : n \in 1..MaxNameLen}

\* int(): the number a string of digits reads as.
RECURSIVE int(_)
int(digits) ==
    IF digits = <<>> THEN 0
    ELSE 10 * int(SubSeq(digits, 1, Len(digits) - 1))
         + (CHOOSE n \in 0..9 : DigitChars[n + 1] = digits[Len(digits)])

\* str(): the digits of a number.
RECURSIVE str(_)
str(n) ==
    IF n < 10 THEN <<DigitChars[n + 1]>>
    ELSE Append(str(n \div 10), DigitChars[(n % 10) + 1])

\* str.zfill(): zeros in front up to the width.
RECURSIVE zfill(_, _)
zfill(digits, width) ==
    IF Len(digits) >= width THEN digits ELSE zfill(<<"0">> \o digits, width)

\* re.search(VERSION_REGEX, filename), "(.*)([._-])v(\d+)\.?(\S+)?$" with
\* IGNORECASE: the greedy (.*) ends at the last separator followed by v or V
\* and a digit; the digits run as far as they go; one dot after them is
\* dropped; the rest is the extension. at is where the separator is, end
\* where the digits end.
version_pattern_match(filename) ==
    LET starts == {n \in 1..(Len(filename) - 2) :
                      /\ filename[n] \in {".", "_", "-"}
                      /\ filename[n + 1] \in {"v", "V"}
                      /\ IsDigit(filename[n + 2])}
    IN  IF starts = {}
        THEN [matched |-> FALSE, at |-> 0, end |-> 0, prefix |-> <<>>, version_sep |-> "",
              version_str |-> <<>>, extension |-> <<>>]
        ELSE LET at   == CHOOSE n \in starts : \A o \in starts : o <= n
                 end  == CHOOSE e \in (at + 2)..Len(filename) :
                            /\ \A n \in (at + 2)..e : IsDigit(filename[n])
                            /\ e < Len(filename) => ~IsDigit(filename[e + 1])
                 rest == IF end < Len(filename) /\ filename[end + 1] = "."
                         THEN end + 2 ELSE end + 1
             IN  [matched |-> TRUE, at |-> at, end |-> end,
                  prefix |-> SubSeq(filename, 1, at - 1),
                  version_sep |-> filename[at],
                  version_str |-> SubSeq(filename, at + 2, end),
                  extension |-> SubSeq(filename, rest, Len(filename))]

NoNumber == [some |-> FALSE, value |-> 0]

NoPathName == [some |-> FALSE, name |-> <<>>]

\* BasicPathInfo.get_version_number
get_version_number(filename) ==
    LET match == version_pattern_match(filename)
    IN  IF match.matched THEN [some |-> TRUE, value |-> int(match.version_str)]
        ELSE NoNumber

\* BasicPathInfo.get_next_version_path, for a path that fits no template.
get_next_version_path(filename) ==
    LET match == version_pattern_match(filename)
        next_version_str == <<"v">> \o zfill(str(int(match.version_str) + 1),
                                             Len(match.version_str))
        new_filename == match.prefix \o <<match.version_sep>> \o next_version_str
    IN  IF ~match.matched THEN NoPathName
        ELSE [some |-> TRUE,
              name |-> IF match.extension # <<>>
                       THEN new_filename \o <<".">> \o match.extension
                       ELSE new_filename]

\* BasicPathInfo.get_next_version_info: "if cur_version: version = cur_version + 1".
next_version(cur_version) ==
    IF cur_version.some /\ cur_version.value # 0
    THEN [some |-> TRUE, value |-> cur_version.value + 1]
    ELSE NoNumber

get_next_version_info(filename) ==
    [next_version_path |-> get_next_version_path(filename),
     version |-> next_version(get_version_number(filename))]

InitNextVersion ==
    \E filename \in FileNames :
        /\ settings = [path |-> filename]
        /\ properties = [called |-> FALSE, next_version_path |-> NoPathName,
                         version |-> NoNumber]
        /\ pc = "next_version"
        /\ publish_tree = <<>>
        /\ task_generator = <<>>
        /\ disk = {}
        /\ shotgun = {}
        /\ cursor = 0
        /\ retval = "none"
        /\ failed_to_validate = <<>>
        /\ log = <<>>

GetNextVersionInfo ==
    /\ pc = "next_version"
    /\ ~properties.called
    /\ LET info == get_next_version_info(settings.path)
       IN  properties' = [called |-> TRUE, next_version_path |-> info.next_version_path,
                          version |-> info.version]
    /\ UNCHANGED <<publish_tree, settings, task_generator, disk, shotgun, pc, cursor, retval,
                   failed_to_validate, log>>

NextNextVersion == GetNextVersionInfo

SpecNextVersion == InitNextVersion /\ [][NextNextVersion]_vars

\* The name with the digits of its version token replaced, nothing else.
WithVersion(filename, match, n) ==
    SubSeq(filename, 1, match.at + 1)
    \o zfill(str(n), Len(match.version_str))
    \o SubSeq(filename, match.end + 1, Len(filename))

\* C22: for a name with a version token of value n and width w the next
\* version path is the same name with n+1 in place of n, at width w or wider
\* if n+1 needs it; for a name without a version token it is none; and the
\* version get_next_version_info returns is the version of that path.
C22_NextVersion ==
    properties.called =>
        LET match == version_pattern_match(settings.path)
        IN  IF ~match.matched THEN ~properties.next_version_path.some
            ELSE /\ properties.next_version_path.some
                 /\ properties.next_version_path.name
                       = WithVersion(settings.path, match, int(match.version_str) + 1)
                 /\ get_version_number(properties.next_version_path.name)
                       = [some |-> TRUE, value |-> int(match.version_str) + 1]
                 /\ properties.version = get_version_number(properties.next_version_path.name)

\* ------------------------------------------------------------------------
\* save_to_next_version, a step at a time. disk holds the names of the files
\* of the folder; settings.disk is the folder as it was found.

MaxOnDisk == 3

\* The next version paths of a name, the first MaxOnDisk of them.
RECURSIVE NextVersions(_, _)
NextVersions(filename, n) ==
    IF n = 0 \/ ~get_next_version_path(filename).some THEN {}
    ELSE {get_next_version_path(filename).name}
         \cup NextVersions(get_next_version_path(filename).name, n - 1)

\* The names saved from: every name with a version token, a few without.
SavedNames ==
    {f \in FileNames : version_pattern_match(f).matched \/ Len(f) <= 2}

InitSave ==
    \E filename \in SavedNames :
        \E found \in SUBSET NextVersions(filename, MaxOnDisk) :
            /\ settings = [path |-> filename, disk |-> found]
            /\ disk = found
            /\ properties = [next_version_path |-> NoPathName, saved |-> <<>>,
                             returned |-> NoPathName, warned |-> FALSE]
            /\ pc = "save"
            /\ publish_tree = <<>>
            /\ task_generator = <<>>
            /\ shotgun = {}
            /\ cursor = 0
            /\ retval = "none"
            /\ failed_to_validate = <<>>
            /\ log = <<>>

\* save_callback(next_version_path) and the return of the path.
Saved(next_version_path) ==
    /\ disk' = disk \cup {next_version_path.name}
    /\ properties' = [properties EXCEPT !.next_version_path = next_version_path,
                                        !.saved = Append(@, next_version_path.name),
                                        !.returned = next_version_path]
    /\ pc' = "saved"

\* save_to_next_version up to its loop: nothing to do without a version
\* number or a next version path; the loop is entered when the next version
\* exists; otherwise the file is saved.
SaveStart ==
    /\ pc = "save"
    /\ LET next_version_path == get_next_version_path(settings.path)
       IN  IF ~get_version_number(settings.path).some
           THEN /\ pc' = "saved"
                /\ UNCHANGED <<disk, properties>>
           ELSE IF ~next_version_path.some
           THEN /\ pc' = "saved"
                /\ properties' = [properties EXCEPT !.warned = TRUE]
                /\ UNCHANGED disk
           ELSE IF next_version_path.name \in disk
           THEN /\ pc' = "while"
                /\ properties' = [properties EXCEPT !.next_version_path = next_version_path]
                /\ UNCHANGED disk
           ELSE Saved(next_version_path)
    /\ UNCHANGED <<publish_tree, settings, task_generator, shotgun, cursor, retval,
                   failed_to_validate, log>>

\* One test of "while os.path.exists(next_version_path)" and, when it holds,
\* one run of the body, counted in cursor; os.path.exists(None) raises.
SaveWhile ==
    /\ pc = "while"
    /\ IF ~properties.next_version_path.some
       THEN /\ pc' = "raised"
            /\ UNCHANGED <<disk, properties, cursor>>
       ELSE IF properties.next_version_path.name \in disk
       THEN /\ properties' = [properties EXCEPT !.next_version_path =
                                 get_next_version_path(properties.next_version_path.name)]
            /\ cursor' = cursor + 1
            /\ UNCHANGED <<disk, pc>>
       ELSE Saved(properties.next_version_path) /\ UNCHANGED cursor
    /\ UNCHANGED <<publish_tree, settings, task_generator, shotgun, retval,
                   failed_to_validate, log>>

NextSave == SaveStart \/ SaveWhile

SpecSave == InitSave /\ [][NextSave]_vars

\* What save_to_next_version has done when it is over.
SavedAsClaimed ==
    LET current == get_version_number(settings.path)
        saved   == get_version_number(properties.returned.name)
    IN  IF ~current.some
        THEN ~properties.returned.some /\ properties.saved = <<>>
        ELSE /\ properties.returned.some
             /\ properties.saved = <<properties.returned.name>>
             /\ properties.returned.name \notin settings.disk
             /\ saved.some
             /\ saved.value > current.value
             /\ \A v \in (current.value + 1)..(saved.value - 1) :
                   \E f \in settings.disk : get_version_number(f) = [some |-> TRUE, value |-> v]

\* C23: save_to_next_version ends, its loop running at most once for each
\* file found on disk; on a path with a version it has then called the save
\* callback once, with the path of the lowest version above the current one
\* that was not on disk, and returned that path; on a path without a version
\* it has returned none and saved nothing; it never fails otherwise.
C23_SaveToNextVersion ==
    /\ pc # "raised"
    /\ cursor <= Cardinality(settings.disk)
    /\ pc = "saved" => SavedAsClaimed

\* ------------------------------------------------------------------------
\* get_frame_sequences on the entries of one folder. An entry is named
\* prefix.frame_str.extension (frame_str empty when the name has no frame
\* number) and is a file or a subfolder.

MaxPadding == 2

MaxListing == 3

FrameStrs == UNION {[1..n -> {"0", "1"}] : n \in 1..MaxPadding}

Entries ==
    [prefix : {"a", "b"}, frame_str : FrameStrs \cup {<<>>}, extension : {"exr", "jpg"},
     is_dir : BOOLEAN]

EntryName(e) == <<e.prefix, e.frame_str, e.extension>>

\* os.listdir: the entries in any order, no name twice.
Listings ==
    {l \in UNION {[1..n -> Entries] : n \in 1..MaxListing} :
        \A m, n \in 1..Len(l) : m # n => EntryName(l[m]) # EntryName(l[n])}

\* The order of two file names of one sequence as strings.
RECURSIVE StrLeq(_, _)
StrLeq(a, b) ==
    IF a = <<>> THEN TRUE
    ELSE IF b = <<>> THEN FALSE
    ELSE IF a[1] # b[1] THEN a[1] = "0"
    ELSE StrLeq(Tail(a), Tail(b))

\* sorted(file_list)
RECURSIVE sorted(_)
sorted(files) ==
    IF files = {} THEN <<>>
    ELSE LET m == CHOOSE x \in files : \A y \in files : StrLeq(x.frame_str, y.frame_str)
         IN  <<m>> \o sorted(files \ {m})

NoSequence ==
    [present |-> FALSE, sequence_path |-> [prefix |-> "", frame_spec |-> "", padding |-> 0,
                                           extension |-> ""],
     file_list |-> <<>>]

\* settings: the listing of the folder, the extensions asked for (none when
\* empty), the frame spec asked for ("" for none). properties: the
\* frame_spec variable and processed_names, by (prefix, extension). log: the
\* sequences returned.
InitSequences ==
    \E listing \in Listings, extensions \in {{}, {"exr"}}, frame_spec \in {"", "{FRAME}"} :
        /\ settings = [listing |-> listing, extensions |-> extensions,
                       frame_spec |-> frame_spec]
        /\ properties = [frame_spec |-> [spec |-> frame_spec, padding |-> 0],
                         processed_names |-> [g \in {"a", "b"} \X {"exr", "jpg"} |-> NoSequence]]
        /\ cursor = 1
        /\ pc = "listdir"
        /\ log = <<>>
        /\ publish_tree = <<>>
        /\ task_generator = <<>>
        /\ disk = {}
        /\ shotgun = {}
        /\ retval = "none"
        /\ failed_to_validate = <<>>

\* The body of "for filename in os.listdir(folder)" on one entry.
examine(entry, extensions, state) ==
    LET file_no_frame == <<entry.prefix, entry.extension>>
        frame_spec == IF state.frame_spec.spec = ""
                      THEN [spec |-> "%0d", padding |-> Len(entry.frame_str)]
                      ELSE state.frame_spec
    IN  IF entry.is_dir THEN state
        ELSE IF entry.frame_str = <<>> THEN state
        ELSE IF state.processed_names[file_no_frame].present
        THEN [state EXCEPT !.processed_names[file_no_frame].file_list = Append(@, entry)]
        ELSE IF extensions # {} /\ entry.extension \notin extensions THEN state
        ELSE [frame_spec |-> frame_spec,
              processed_names |->
                  [state.processed_names EXCEPT ![file_no_frame] =
                      [present |-> TRUE,
                       sequence_path |-> [prefix |-> entry.prefix,
                                          frame_spec |-> frame_spec.spec,
                                          padding |-> frame_spec.padding,
                                          extension |-> entry.extension],
                       file_list |-> <<entry>>]]]

ExamineFile ==
    /\ pc = "listdir"
    /\ cursor <= Len(settings.listing)
    /\ properties' = examine(settings.listing[cursor], settings.extensions, properties)
    /\ cursor' = cursor + 1
    /\ UNCHANGED <<publish_tree, settings, task_generator, disk, shotgun, pc, retval,
                   failed_to_validate, log>>

\* The sequences of processed_names as a list, the files of each sorted.
SortedByGroup(processed_names) ==
    LET RECURSIVE List(_)
        List(groups) ==
            IF groups = {} THEN <<>>
            ELSE LET g == CHOOSE x \in groups : TRUE
                 IN  <<[sequence_path |-> processed_names[g].sequence_path,
                        file_list |-> sorted(Range(processed_names[g].file_list))]>>
                     \o List(groups \ {g})
    IN  List({g \in DOMAIN processed_names : processed_names[g].present})

\* The list returned: for each sequence found, its path and its files sorted.
ReturnSequences ==
    /\ pc = "listdir"
    /\ cursor > Len(settings.listing)
    /\ log' = SortedByGroup(properties.processed_names)
    /\ pc' = "returned"
    /\ UNCHANGED <<publish_tree, settings, task_generator, properties, disk, shotgun, cursor,
                   retval, failed_to_validate>>

NextSequences == ExamineFile \/ ReturnSequences

SpecSequences == InitSequences /\ [][NextSequences]_vars

\* The frame-numbered files of the folder with one prefix and extension that
\* pass the extension filter.
GroupFiles(g) ==
    {e \in Range(settings.listing) :
        /\ ~e.is_dir
        /\ e.frame_str # <<>>
        /\ <<e.prefix, e.extension>> = g
        /\ settings.extensions # {} => e.extension \in settings.extensions}

\* C24: one descriptor is returned for each (prefix, extension) that has
\* frame-numbered files passing the filter and none for any other; its file
\* list is those files, each once, sorted; and when no frame spec is asked
\* for, its placeholder has the width of the padding of its own files.
C24_FrameSequences ==
    pc = "returned" =>
        /\ \A g \in {"a", "b"} \X {"exr", "jpg"} :
              Cardinality({n \in 1..Len(log) :
                              <<log[n].sequence_path.prefix, log[n].sequence_path.extension>> = g})
                 = IF GroupFiles(g) = {} THEN 0 ELSE 1
        /\ \A n \in 1..Len(log) :
              LET files == GroupFiles(<<log[n].sequence_path.prefix,
                                        log[n].sequence_path.extension>>)
              IN  /\ log[n].file_list = sorted(files)
                  /\ settings.frame_spec = ""
                     => \E e \in files : log[n].sequence_path.padding = Len(e.frame_str)

\* ------------------------------------------------------------------------
\* run_batch when the validate pass itself raises (the task generator or the
\* manager, not the validate of a task, which the manager records).

\* manager.validate raises: the finally clause reads num_issues, which was
\* never assigned, and the UnboundLocalError leaves run_batch.
ValidateRaised ==
    /\ pc = "validate"
    /\ pc' = "done"
    /\ retval' = "UnboundLocalError"
    /\ UNCHANGED <<publish_tree, settings, task_generator, properties, disk, shotgun, cursor,
                   failed_to_validate, log>>

NextBatch == Next \/ ValidateRaised

SpecBatch == Init /\ [][NextBatch]_vars

\* C25: run_batch ends by returning True or False and no exception leaves
\* it; with validate_on_publish set, when tasks failed to validate or the
\* pass raised it returns False and nothing is published or finalized; it
\* returns True only when both other passes ran to their end without raising.
C25_BatchReturnsBoolean ==
    pc = "done" =>
        /\ retval \in {"True", "False"}
        /\ settings.validate_on_publish
           /\ (failed_to_validate # <<>> \/ Len(log.validated) < Len(task_generator))
           => /\ retval = "False"
              /\ log.published = <<>>
              /\ log.finalized = <<>>
        /\ retval = "True"
           => /\ \A n \in 1..Len(log.published) : ~log.published[n].raised
              /\ \A n \in 1..Len(log.finalized) : ~log.finalized[n].raised
              /\ Len(log.published) = Len(task_generator)
              /\ Len(log.finalized) = Len(task_generator)

\* ------------------------------------------------------------------------
\* Claims on the publishes of one run (specification Spec).

Identity(record) == <<record.context, record.name, record.path>>

\* C26: in a run whose tasks were validated, no publish copies a file to a
\* place where a file already is, and no two records registered by the run
\* have the same context, name and path.
C26_NoOverwriteNoDuplicate ==
    settings.validate_on_publish =>
        /\ \A n \in 1..Len(log.published) :
              log.published[n].copied \cap log.published[n].before = {}
        /\ \A m, n \in 1..Len(log.published) :
              /\ m # n
              /\ log.published[m].registered # <<>>
              /\ log.published[n].registered # <<>>
              => Identity(log.published[m].registered[1])
                    # Identity(log.published[n].registered[1])

\* C27: when the publish of a task raised after another task of the same
\* item was published, the undo that followed left what the other task made:
\* its record is registered and in the item's sg_publish_data_list, and the
\* files it copied are on disk.
C27_UndoLeavesOtherTasks ==
    pc = "publish_raised" =>
        LET failed == log.published[Len(log.published)]
            item   == publish_tree.tasks[failed.task].item
        IN  \A m \in 1..(Len(log.published) - 1) :
               LET other == log.published[m]
               IN  /\ publish_tree.tasks[other.task].item = item
                   /\ ~other.raised
                   => /\ other.registered[1] \in shotgun
                      /\ properties[item].has_sg_list
                      /\ other.registered[1] \in Range(properties[item].sg_publish_data_list)
                      /\ other.copied \subseteq disk

\* The ids of the records now registered that the tasks of item i registered
\* in this run.
RegisteredBy(i) ==
    {rec.id : rec \in {rec \in shotgun : rec.task # 0 /\ publish_tree.tasks[rec.task].item = i}}

Ids(list) == {list[n].id : n \in 1..Len(list)}

\* C28: the sg_publish_data_list of an item holds the records its publishes
\* registered that are still registered: every record listed is registered,
\* and every record still registered is listed.
C28_ListMatchesRegistered ==
    pc \in {"publish", "publish_raised", "finalize", "finalize_raised", "done"}
    => \A i \in Items :
          Ids(IF properties[i].has_sg_list THEN properties[i].sg_publish_data_list ELSE <<>>)
             = RegisteredBy(i)

\* ------------------------------------------------------------------------
\* One invocation of the task generator whose caller sends a status back.
\* next() and send(status) both run the generator to its next yield and
\* return the task yielded; next() sends None.

Statuses == {"None", "True", "False"}

\* A generator that leaves the tasks of an item when the status it is sent
\* is a failure.
send_leaves_item_on_failure(run, invocation, status) ==
    IF status = "False"
    THEN Resumed(run, [invocation EXCEPT !.task_pos = MaxTasks])
    ELSE Resumed(run, invocation)

\* generator.send(status): "status = (yield task)" takes the value, the
\* status is logged, and the loops run on to the next yield.
send(run, invocation, status) == Resumed(run, invocation)

\* properties: the local variable status and the statuses sent so far.
InitSend ==
    \E run \in {r \in TreeRuns : r.settings.validate_on_publish
                                  /\ ~r.tree.has_dependency_ids} :
        /\ publish_tree = run.tree
        /\ settings = run.settings
        /\ task_generator = NewInvocation
        /\ properties = [status |-> "None", sent |-> <<>>]
        /\ pc = "created"
        /\ disk = {}
        /\ shotgun = {}
        /\ cursor = 0
        /\ retval = "none"
        /\ failed_to_validate = <<>>
        /\ log = <<>>

\* The first next() on the generator: it runs to its first yield.
PullFirst ==
    /\ pc = "created"
    /\ task_generator' = Resumed([tree |-> publish_tree,
                                  item_filter |-> settings.item_filter,
                                  task_filter |-> settings.task_filter],
                                 task_generator)
    /\ pc' = "yielded"
    /\ UNCHANGED <<publish_tree, settings, properties, disk, shotgun, cursor, retval,
                   failed_to_validate, log>>

\* The caller sends a status for the task it was given and is given the next.
Send(status) ==
    /\ pc = "yielded"
    /\ ~task_generator.exhausted
    /\ task_generator' = send([tree |-> publish_tree,
                               item_filter |-> settings.item_filter,
                               task_filter |-> settings.task_filter],
                              task_generator, status)
    /\ properties' = [status |-> status, sent |-> Append(properties.sent, status)]
    /\ UNCHANGED <<publish_tree, settings, disk, shotgun, pc, cursor, retval,
                   failed_to_validate, log>>

NextSend == PullFirst \/ \E status \in Statuses : Send(status)

SpecSend == InitSend /\ [][NextSend]_vars

\* C29: whatever statuses the caller sends, the tasks it is given by next()
\* and send() are the tasks given when nothing is sent, in the same order,
\* each once: at any time they are the beginning of that sequence, and all of
\* it when the generator is exhausted.
C29_StatusChangesNothing ==
    LET unsent == execute(publish_tree, settings.item_filter, settings.task_filter)
    IN  /\ IsPrefix(task_generator.yielded, unsent)
        /\ task_generator.exhausted => task_generator.yielded = unsent
        /\ pc = "yielded" /\ ~task_generator.exhausted
           => Len(task_generator.yielded) = Len(properties.sent) + 1
        /\ Len(task_generator.yielded) = Cardinality(Range(task_generator.yielded))

\* The generator is exhausted after a failure and a success were sent for
\* tasks of one item, the failure first, and a task of the tree was skipped.
C29_Witness ==
    /\ pc = "yielded"
    /\ task_generator.exhausted
    /\ Len(task_generator.yielded) >= 2
    /\ Len(task_generator.yielded) < Len(publish_tree.tasks)
    /\ properties.sent[1] = "False"
    /\ properties.sent[2] = "True"
    /\ publish_tree.tasks[task_generator.yielded[1]].item
          = publish_tree.tasks[task_generator.yielded[2]].item

\* ---------------------------------------------------------------------------
\* The collector's choice of an item type for a file.
\* ---------------------------------------------------------------------------

\* The item types of the "Item Types" setting: a type and its sequence form.
ItemTypeNames == {"a", "a.sequence", "b"}

\* The values of the resolution_order setting.
ResolutionOrders == {0, 1, 2}

\* What the collector reads of one item type for a given path: whether one of
\* its extensions matches the file's, its resolution_order, whether it has a
\* work_path_template and one of the templates it names validates the path,
\* and its ignore_sequences.
TypeInfos ==
    [accepted : BOOLEAN, resolution_order : ResolutionOrders,
     matched : BOOLEAN, ignore_sequences : BOOLEAN]

\* The orders in which the dictionary of item types can be iterated.
Iterations ==
    {names \in UNION {[1..n -> ItemTypeNames] : n \in 1..Cardinality(ItemTypeNames)} :
        \A m, n \in 1..Len(names) : m # n => names[m] # names[n]}

\* "%s.%s" % (item_type, "sequence") of the types that are not sequences.
sequence_of(item_type) ==
    CASE item_type = "a" -> "a.sequence"
      [] item_type = "b" -> "b.sequence"
      [] item_type = "file.unknown" -> "file.unknown.sequence"

endswith_sequence(item_type) ==
    item_type \in {"a.sequence", "b.sequence", "file.unknown.sequence"}

\* ignore_sequences of _get_item_type_info: the setting of a configured item
\* type, False for one that is not configured.
ignore_sequences_of(names, infos, item_type) ==
    IF \E n \in 1..Len(names) : names[n] = item_type
    THEN LET n == CHOOSE n \in 1..Len(names) : names[n] = item_type
         IN infos[n].ignore_sequences
    ELSE FALSE

\* The end of _get_item_type_from_settings: a file of a sequence gets the
\* sequence form of the type unless the type ignores sequences.
returned_item_type(names, infos, is_sequence, item_type) ==
    IF /\ ~ignore_sequences_of(names, infos, item_type)
       /\ is_sequence
       /\ ~endswith_sequence(item_type)
    THEN sequence_of(item_type)
    ELSE item_type

RECURSIVE max_resolution_order(_)
max_resolution_order(mapping) ==
    IF Len(mapping) = 1 THEN mapping[1].resolution_order
    ELSE LET rest == max_resolution_order(Tail(mapping))
         IN IF mapping[1].resolution_order > rest
            THEN mapping[1].resolution_order ELSE rest

\* The key of the sort: lambda elem: elem[0] if not elem[1] else elem[0]-max.
sort_key(elem, max) ==
    IF ~elem.matched THEN elem.resolution_order ELSE elem.resolution_order - max

\* list.sort is stable: an element goes after the elements that do not exceed it.
RECURSIVE insert_sorted(_, _, _)
insert_sorted(done, elem, max) ==
    IF done = <<>> THEN <<elem>>
    ELSE IF sort_key(done[1], max) <= sort_key(elem, max)
         THEN <<done[1]>> \o insert_sorted(Tail(done), elem, max)
         ELSE <<elem>> \o done

RECURSIVE sort_from(_, _, _)
sort_from(done, todo, max) ==
    IF todo = <<>> THEN done
    ELSE sort_from(insert_sorted(done, todo[1], max), Tail(todo), max)

sort_on_resolution_order(mapping) ==
    sort_from(<<>>, mapping, max_resolution_order(mapping))

InitItemType ==
    \E names \in Iterations, is_sequence \in BOOLEAN, ui \in BOOLEAN :
    \E infos \in [1..Len(names) -> TypeInfos] :
        /\ settings = [names |-> names, infos |-> infos,
                       is_sequence |-> is_sequence, ui |-> ui]
        /\ properties = <<>>
        /\ cursor = 1
        /\ pc = "item_types"
        /\ retval = "none"
        /\ publish_tree = <<>>
        /\ task_generator = <<>>
        /\ disk = {}
        /\ shotgun = {}
        /\ failed_to_validate = <<>>
        /\ log = <<>>

\* One turn of the loop over the item types of
\* _get_filtered_item_types_from_settings; properties is
\* template_item_type_mapping.
FilterItemType ==
    /\ pc = "item_types"
    /\ cursor <= Len(settings.names)
    /\ LET current_item_type == settings.names[cursor]
           type_info == settings.infos[cursor]
           tmp_type == IF endswith_sequence(current_item_type) THEN "none"
                       ELSE sequence_of(current_item_type)
           entry(item_type) == [resolution_order |-> type_info.resolution_order,
                                matched |-> type_info.matched,
                                item_type |-> item_type]
       IN properties' =
            IF ~type_info.accepted THEN properties
            ELSE IF /\ ~type_info.ignore_sequences
                    /\ settings.is_sequence
                    /\ ~endswith_sequence(current_item_type)
                    /\ tmp_type \in Range(settings.names)
                 THEN Append(properties, entry(tmp_type))
                 ELSE sort_on_resolution_order(
                          Append(properties, entry(current_item_type)))
    /\ cursor' = cursor + 1
    /\ UNCHANGED <<publish_tree, settings, task_generator, disk, shotgun, pc, retval,
                   failed_to_validate, log>>

\* _get_item_type_from_settings takes the first of the list; when that one
\* has no matching template and there are others, and the "Item Types UI"
\* setting is on, the user selects one of the list. With an empty list the
\* type is that of the file's mimetype category, "file.unknown" here.
ItemTypeFromSettings ==
    /\ pc = "item_types"
    /\ cursor > Len(settings.names)
    /\ \E selected \in {"none"} \cup {elem.item_type : elem \in Range(properties)} :
        /\ LET item_type ==
                   IF Len(properties) = 0 THEN "file.unknown"
                   ELSE IF selected # "none" THEN selected
                   ELSE properties[1].item_type
           IN /\ selected # "none" <=>
                    (/\ Len(properties) > 1
                     /\ ~properties[1].matched
                     /\ settings.ui)
              /\ retval' = returned_item_type(settings.names, settings.infos,
                                              settings.is_sequence, item_type)
    /\ pc' = "picked"
    /\ UNCHANGED <<publish_tree, settings, task_generator, properties, disk, shotgun,
                   cursor, failed_to_validate, log>>

NextItemType == FilterItemType \/ ItemTypeFromSettings

SpecItemType == InitItemType /\ [][NextItemType]_vars

\* The entries of the list whose item type is the one returned.
Picked ==
    {elem \in Range(properties) :
        returned_item_type(settings.names, settings.infos, settings.is_sequence,
                           elem.item_type) = retval}

\* C30: when several item types accept the file's extension and the choice is
\* the collector's own (no selection by the user), the picked item type has a
\* matching work_path_template whenever one of the accepting item types has,
\* whatever the resolution_order values; when none has, the picked item type
\* has the lowest resolution_order of them.
C30_TemplateBeforeResolutionOrder ==
    (pc = "picked" /\ Len(properties) > 1 /\ ~settings.ui) =>
        IF \E elem \in Range(properties) : elem.matched
        THEN \E elem \in Picked : elem.matched
        ELSE \E elem \in Picked :
                \A other \in Range(properties) :
                    elem.resolution_order <= other.resolution_order

====
